---- MODULE Spec2Model ----
(***************************************************************************)
(* Model of the ndle-worker redirect handler (latest revision of           *)
(* src/index.ts, kept as src/unnamed/part_004): edge-cache lookup,         *)
(* single-flight coalescing of backing-store fetches through the           *)
(* process-wide slugWarmups map, A/B variant resolution and the redirect   *)
(* response.                                                               *)
(*                                                                         *)
(* Granularity: one action per I/O completion of a request.  After an I/O  *)
(* completion the JavaScript runtime drains the microtask queue, so the    *)
(* synchronous code that follows an await, up to the next real I/O call,   *)
(* is one atomic step; the continuations of the requests awaiting a        *)
(* settled warmup promise are separate steps.                              *)
(***************************************************************************)
EXTENDS Integers, Sequences, FiniteSets, TLC

\* ------------------------------------------------------------------ bounds
NumReq == 2           \* requests handled by the one worker instance
DrawDen == 2          \* random draws are k / DrawDen, k in 0..DrawDen
MaxVariants == 3      \* longest variant list handed to a selection function
MaxWeight == 2        \* largest weight of a variant in such a list
MaxPathLen == 4       \* longest path of a request URL handed to the cache-key function

Reqs == 1..NumReq
Slugs == {"s1", "s2"}
Draws == 0..DrawDen

\* ------------------------------------------------------------------ URLs
\* A string that is handed to `new URL(...)`: valid says whether it parses,
\* q is the set of <<name, value>> search parameters.
Url(h, params) == [valid |-> TRUE, host |-> h, q |-> params]
NotAUrl == [valid |-> FALSE, host |-> "not a url", q |-> {}]
EmptyString == [valid |-> FALSE, host |-> "", q |-> {}]

HasParam(url, k) == \E p \in url.q : p[1] = k

\* appendUtmParamsToUrl: a stored parameter is added only when its value is
\* non-empty and the URL has no parameter of that name yet.
appendUtmParamsToUrl(destinationUrl, utmParams) ==
    [destinationUrl EXCEPT
        !.q = @ \cup {p \in utmParams : p[2] /= "" /\ ~HasParam(destinationUrl, p[1])}]

\* `Object.keys(utmParams).length > 0 ? appendUtmParamsToUrl(url, utmParams) : url`
WithUtm(url, utmParams) ==
    IF utmParams /= {} THEN appendUtmParamsToUrl(url, utmParams) ELSE url

\* ---------------------------------------------------------------- cache key
\* A URL string is a sequence of tokens: a scheme ("https://" in either case),
\* then single characters.
ToLowerCase(ch) ==
    IF ch = "X" THEN "x" ELSE IF ch = "A" THEN "a"
    ELSE IF ch = "HTTPS://" THEN "https://" ELSE ch

LowerAll(str) == [i \in 1..Len(str) |-> ToLowerCase(str[i])]

\* Index of the first token of str that is in stops, Len(str) + 1 if none.
IndexOfFirst(str, stops) ==
    IF \E i \in 1..Len(str) : str[i] \in stops
    THEN CHOOSE i \in 1..Len(str) :
            str[i] \in stops /\ \A j \in 1..(i - 1) : str[j] \notin stops
    ELSE Len(str) + 1

\* new URL(str) for an absolute http(s) URL: origin (scheme and host, which
\* the parser lower-cases), pathname ("/" when the string has none) and search.
ParseUrl(str) ==
    LET p == IndexOfFirst(str, {"/", "?"})
        q == IndexOfFirst(str, {"?"})
    IN  [origin |-> LowerAll(SubSeq(str, 1, p - 1)),
         pathname |-> IF p = q THEN <<"/">> ELSE SubSeq(str, p, q - 1),
         search |-> SubSeq(str, q, Len(str))]

\* pathname.replace(/\/+$/, "")
RECURSIVE StripTrailingSlashes(_)
StripTrailingSlashes(pathname) ==
    IF pathname /= <<>> /\ pathname[Len(pathname)] = "/"
    THEN StripTrailingSlashes(SubSeq(pathname, 1, Len(pathname) - 1))
    ELSE pathname

\* Mutant: the pattern is /\/$/, which removes one trailing slash only.
makeCacheKeyFromContext_OneSlash(reqUrl) ==
    LET url == ParseUrl(reqUrl)
        origin == LowerAll(url.origin)
        stripped == IF url.pathname[Len(url.pathname)] = "/"
                    THEN SubSeq(url.pathname, 1, Len(url.pathname) - 1)
                    ELSE url.pathname
        pathname == IF stripped = <<>> THEN <<"/">> ELSE stripped
    IN  origin \o pathname

makeCacheKeyFromContext(reqUrl) ==
    LET url == ParseUrl(reqUrl)
        origin == LowerAll(url.origin)
        stripped == StripTrailingSlashes(url.pathname)
        pathname == IF stripped = <<>> THEN <<"/">> ELSE stripped
    IN  origin \o pathname

\* ------------------------------------------------------------ A/B testing
\* Session ids are sequences of character codes.
SessionIds == {<<97>>, <<98>>}

\* One round of the loop of selectDeterministicVariant,
\*   hash = (hash << 5) - hash + charCode;  hash = hash & hash;
\* that is 31 * hash + charCode wrapped to a signed 32-bit integer.  The
\* product is formed on the 16-bit halves of the two's complement pattern,
\* so that no intermediate value leaves the 32-bit range.
HashStep(hash, charCode) ==
    LET lo == hash % 65536
        hi == (hash \div 65536) % 65536
        loFull == 31 * lo + charCode
        newLo == loFull % 65536
        newHi == (31 * hi + (loFull \div 65536)) % 65536
    IN  IF newHi >= 32768 THEN (newHi - 65536) * 65536 + newLo
        ELSE newHi * 65536 + newLo

RECURSIVE HashFrom(_, _, _)
HashFrom(hash, sessionId, i) ==
    IF i > Len(sessionId) THEN hash
    ELSE HashFrom(HashStep(hash, sessionId[i]), sessionId, i + 1)

SessionHash(sessionId) == HashFrom(0, sessionId, 1)

MinInt32 == -2147483647 - 1

\* Mutant: the remainder is taken of the signed hash, without Math.abs; the
\* remainder of a negative dividend is negative.
Bucket_Signed(hash, totalWeight) ==
    IF hash = MinInt32 THEN -((((-(hash + 1)) % totalWeight) + 1) % totalWeight)
    ELSE IF hash < 0 THEN -((-hash) % totalWeight)
    ELSE hash % totalWeight

\* Math.abs(hash) % totalWeight; Math.abs(-2^31) is 2^31, which is reduced
\* here without forming it.
Bucket(hash, totalWeight) ==
    IF hash = MinInt32 THEN (((-(hash + 1)) % totalWeight) + 1) % totalWeight
    ELSE IF hash < 0 THEN (-hash) % totalWeight
    ELSE hash % totalWeight

RECURSIVE SumWeights(_, _)
SumWeights(variants, i) ==
    IF i > Len(variants) THEN 0 ELSE variants[i].weight + SumWeights(variants, i + 1)

TotalWeight(variants) == SumWeights(variants, 1)

NoVariant == [id |-> "none", weight |-> 0, url |-> NotAUrl]

\* Loop of selectWeightedVariant with threshold = (draw / DrawDen) * totalWeight;
\* `acc` is the weight subtracted before variant i, so the test threshold <= 0
\* after `threshold -= variant.weight` reads
\* draw * totalWeight <= DrawDen * (acc + weight).
RECURSIVE WeightedLoop(_, _, _, _)
WeightedLoop(variants, draw, acc, i) ==
    IF i > Len(variants) THEN variants[Len(variants)]
    ELSE IF draw * TotalWeight(variants) <= DrawDen * (acc + variants[i].weight)
         THEN variants[i]
         ELSE WeightedLoop(variants, draw, acc + variants[i].weight, i + 1)

\* Mutant: no early return for a total weight <= 0.
selectWeightedVariant_NoGuard(variants, draw) ==
    IF Len(variants) = 0 THEN NoVariant
    ELSE WeightedLoop(variants, draw, 0, 1)

selectWeightedVariant(variants, draw) ==
    IF Len(variants) = 0 THEN NoVariant
    ELSE IF TotalWeight(variants) <= 0 THEN variants[1]
    ELSE WeightedLoop(variants, draw, 0, 1)

RECURSIVE DeterministicLoop(_, _, _, _)
DeterministicLoop(variants, bucket, threshold, i) ==
    IF i > Len(variants) THEN variants[Len(variants)]
    ELSE IF bucket < threshold + variants[i].weight
         THEN variants[i]
         ELSE DeterministicLoop(variants, bucket, threshold + variants[i].weight, i + 1)

selectDeterministicVariant(variants, sessionId) ==
    IF Len(variants) = 0 THEN NoVariant
    ELSE IF TotalWeight(variants) <= 0 THEN variants[1]
    ELSE DeterministicLoop(variants,
                           Bucket(SessionHash(sessionId), TotalWeight(variants)), 0, 1)

\* Mutant: the enabled flag of the config is not looked at.
resolveABTest_IgnoresEnabled(config, sessionId, draw) ==
    IF ~config.present \/ Len(config.variants) = 0 THEN NoVariant
    ELSE IF config.distribution = "deterministic"
         THEN selectDeterministicVariant(config.variants, sessionId)
         ELSE selectWeightedVariant(config.variants, draw)

\* resolveABTest: NoVariant stands for the null result.
resolveABTest(config, sessionId, draw) ==
    IF ~config.present \/ ~config.enabled \/ Len(config.variants) = 0 THEN NoVariant
    ELSE IF config.distribution = "deterministic"
         THEN selectDeterministicVariant(config.variants, sessionId)
         ELSE selectWeightedVariant(config.variants, draw)

\* ---------------------------------------------------------------- records
NoAB == [present |-> FALSE, enabled |-> FALSE, distribution |-> "weighted", variants |-> <<>>]

Variants2 ==
    << [id |-> "A", weight |-> 1, url |-> Url("va", {})],
       [id |-> "B", weight |-> 1, url |-> Url("vb", {})] >>

ABOn(mode) == [present |-> TRUE, enabled |-> TRUE, distribution |-> mode, variants |-> Variants2]

Utm1 == {<<"utm_source", "nl">>}

\* RedisValueObject values the store can hold for a slug ("" stands for a
\* missing link_id / user_id).
Absent   == [present |-> FALSE, destination |-> EmptyString, utm_params |-> {}, ab_test |-> NoAB,
             link_id |-> "", user_id |-> "", is_active |-> FALSE]
RecUtm   == [present |-> TRUE, destination |-> Url("d2", {}), utm_params |-> Utm1, ab_test |-> NoAB,
             link_id |-> "l1", user_id |-> "u1", is_active |-> TRUE]
RecBad   == [present |-> TRUE, destination |-> NotAUrl, utm_params |-> {}, ab_test |-> NoAB,
             link_id |-> "l2", user_id |-> "u1", is_active |-> TRUE]
RecABDet == [present |-> TRUE, destination |-> Url("d3", {}), utm_params |-> Utm1,
             ab_test |-> ABOn("deterministic"),
             link_id |-> "l3", user_id |-> "u1", is_active |-> TRUE]
RecABW   == [present |-> TRUE, destination |-> Url("d4", {}), utm_params |-> {},
             ab_test |-> ABOn("weighted"),
             link_id |-> "l4", user_id |-> "u1", is_active |-> FALSE]

\* The successive contents of the backing store for each slug: the owner of a
\* link creates, edits and removes its record while the worker runs.
StoreHistory(s) ==
    IF s = "s1" THEN <<RecABDet, RecABW, Absent>> ELSE <<RecBad, RecUtm>>

\* Mutant: a record that is not active counts as missing.
getUrlFromRedis_ActiveOnly(value) ==
    IF value.present /\ value.is_active /\ value.destination /= EmptyString
       /\ value.destination.valid
    THEN [kind |-> "found", redisValue |-> value]
    ELSE [kind |-> "undefined", redisValue |-> Absent]

\* Result of getUrlFromRedis once redis.json.get has answered with `value`:
\* {url, redisValue} when the destination is non-empty and parses, else undefined.
Undefined == [kind |-> "undefined", redisValue |-> Absent]
Rejected  == [kind |-> "error", redisValue |-> Absent]

\* Mutant: the destination is handed on without being parsed.
getUrlFromRedis_NoParse(value) ==
    IF value.present /\ value.destination /= EmptyString
    THEN [kind |-> "found", redisValue |-> value]
    ELSE Undefined

getUrlFromRedis(value) ==
    IF value.present /\ value.destination /= EmptyString
    THEN IF value.destination.valid
         THEN [kind |-> "found", redisValue |-> value]
         ELSE Undefined
    ELSE Undefined

\* --------------------------------------------------------------- responses
NoLocation == [valid |-> FALSE, host |-> "<no location>", q |-> {}]
buildClientRedirectResponse(location) == [status |-> 302, location |-> location]
NotFound == [status |-> 404, location |-> NoLocation]
\* An exception that leaves the handler: the framework answers 500.
InternalError == [status |-> 500, location |-> NoLocation]
NoResponse == [status |-> 0, location |-> NoLocation]

\* Mutant: the warmup caches the URL the client is redirected to, variant
\* included.
CacheableLocation_Variant(result) ==
    LET abResult == resolveABTest(result.redisValue.ab_test, <<97>>, 0)
    IN  WithUtm(IF abResult /= NoVariant /\ abResult.url.valid
                THEN abResult.url ELSE result.redisValue.destination,
                result.redisValue.utm_params)

\* Location stored in the edge cache by the warmup: canonical destination + UTM.
CacheableLocation(result) ==
    WithUtm(result.redisValue.destination, result.redisValue.utm_params)

\* Miss path (after the warmup resolved with a found record): variant or
\* canonical destination, then UTM parameters.
MissFinalUrl(redisValue, sessionId, draw) ==
    LET abResult == resolveABTest(redisValue.ab_test, sessionId, draw)
        finalDestination ==
            IF abResult /= NoVariant /\ abResult.url.valid
            THEN abResult.url ELSE redisValue.destination
    IN  WithUtm(finalDestination, redisValue.utm_params)

\* Mutant: the hit path answers with the cached Location and resolves no
\* experiment (as the revision before A/B testing did).
HitDestination_CachedOnly(cachedLocation, result, sessionId, draw) == cachedLocation

\* Mutant: the selected variant URL is used without being parsed.
HitDestination_Unparsed(cachedLocation, result, sessionId, draw) ==
    LET redisValue == result.redisValue
        abResult == resolveABTest(redisValue.ab_test, sessionId, draw)
    IN  IF result.kind = "found" /\ abResult /= NoVariant
        THEN WithUtm(abResult.url, redisValue.utm_params)
        ELSE cachedLocation

\* Hit path: the cached Location unless the record read back from the store
\* has an enabled experiment whose selected variant URL parses.
HitDestination(cachedLocation, result, sessionId, draw) ==
    LET redisValue == result.redisValue
        abResult == resolveABTest(redisValue.ab_test, sessionId, draw)
    IN  IF result.kind = "found" /\ abResult /= NoVariant /\ abResult.url.valid
        THEN WithUtm(abResult.url, redisValue.utm_params)
        ELSE cachedLocation

\* variantId of the miss path: set when the selected variant's URL parses.
MissVariantId(redisValue, sessionId, draw) ==
    LET abResult == resolveABTest(redisValue.ab_test, sessionId, draw)
    IN  IF abResult /= NoVariant /\ abResult.url.valid THEN abResult.id ELSE "null"

\* variantId of the hit path.
HitVariantId(result, sessionId, draw) ==
    LET abResult == resolveABTest(result.redisValue.ab_test, sessionId, draw)
    IN  IF result.kind = "found" /\ abResult /= NoVariant /\ abResult.url.valid
        THEN abResult.id ELSE "null"

\* ------------------------------------------------------------ deferred work
\* c.env bindings read by the deferred work: TRUE when the binding is set.
Env(endpoint, token, secret) ==
    [ANALYTICS_ENDPOINT |-> endpoint, ANALYTICS_TOKEN |-> token, API_SECRET |-> secret]
ProductionEnv == Env(TRUE, TRUE, TRUE)
Envs == {ProductionEnv, Env(TRUE, TRUE, FALSE), Env(TRUE, FALSE, TRUE), Env(FALSE, FALSE, FALSE)}

\* The fields of the AnalyticsEventInput that the model follows.
NoEvent == [built |-> FALSE, redirect_status |-> 0, is_bot |-> FALSE,
            destination_url |-> NoLocation, link_id |-> "", user_id |-> "",
            first_click_of_session |-> FALSE]

\* generateSessionId(ipHash, userAgent) of the requests followed here, which
\* come from one client (one address, one user agent).
ClientSessionId == "c0ffee"

\* `session:${sessionId}:${slug}`
SessionKey(session, linkSlug) == <<"session", session, linkSlug>>

\* firstClickOfSession = exists === 0
FirstClickFromExists(exists) == exists = 0

\* buildAnalyticsInput; isBot is the value of isBot(userAgent, cf), redisValue
\* is Absent where the caller passes null and firstClick is the value the
\* first-click block left in firstClickOfSession.
buildAnalyticsInput(destinationUrl, redisValue, isBot, firstClick) ==
    [built |-> TRUE, redirect_status |-> 301, is_bot |-> isBot,
     destination_url |-> destinationUrl,
     link_id |-> redisValue.link_id, user_id |-> redisValue.user_id,
     first_click_of_session |-> firstClick]

\* Mutant: the gate does not look at the bot flag.
ShouldProbe_IgnoresBot(redisValue, ev) ==
    redisValue.present /\ redisValue.link_id /= "" /\ redisValue.user_id /= ""
        /\ redisValue.is_active

\* The gate in front of performHealthCheck,
\*   redisValue?.link_id && redisValue?.user_id && redisValue?.is_active && !event.is_bot
ShouldProbe(redisValue, ev) ==
    redisValue.present /\ redisValue.link_id /= "" /\ redisValue.user_id /= ""
        /\ redisValue.is_active /\ ~ev.is_bot

\* The clickEvent object built next to the gate.
NoClickEvent == [present |-> FALSE, linkSlug |-> ""]
ClickEvent(linkSlug) == [present |-> TRUE, linkSlug |-> linkSlug]

\* What the probe's fetch yields: a response (status, whether its Location
\* header contains "redirect") or an error whose lower-cased message contains
\* the given keywords; responseTime in milliseconds.
NoProbeResponse == [present |-> FALSE, status |-> 0, locationHasRedirect |-> FALSE]
NoProbeError == [present |-> FALSE, words |-> {}]
ProbeResponded(status, locationHasRedirect, responseTime) ==
    [kind |-> "response",
     response |-> [present |-> TRUE, status |-> status,
                   locationHasRedirect |-> locationHasRedirect],
     error |-> NoProbeError, responseTime |-> responseTime]
ProbeFailed(words, responseTime) ==
    [kind |-> "error", response |-> NoProbeResponse,
     error |-> [present |-> TRUE, words |-> words], responseTime |-> responseTime]
NoProbe == [kind |-> "none", response |-> NoProbeResponse, error |-> NoProbeError,
            responseTime |-> 0]

ProbeOutcomes ==
    { ProbeResponded(200, FALSE, 120), ProbeResponded(503, FALSE, 120),
      ProbeFailed({"aborted"}, 8000), ProbeFailed({}, 40) }

HealthResult(status, isHealthy) == [status |-> status, isHealthy |-> isHealthy]

\* Mutant: the ssl/certificate keywords are tested before timeout/aborted.
determineHealthStatus_SslFirst(response, responseTime, error) ==
    IF error.present THEN
        IF "ssl" \in error.words \/ "certificate" \in error.words
            THEN HealthResult("ssl_error", FALSE)
        ELSE IF "timeout" \in error.words \/ "aborted" \in error.words
            THEN HealthResult("timeout", FALSE)
        ELSE IF "dns" \in error.words \/ "name resolution" \in error.words
            THEN HealthResult("dns_error", FALSE)
        ELSE IF "network" \in error.words \/ "connection" \in error.words
            THEN HealthResult("down", FALSE)
        ELSE HealthResult("error", FALSE)
    ELSE IF response.present THEN
        IF response.status >= 300 /\ response.status < 400 /\ response.locationHasRedirect
            THEN HealthResult("redirect_loop", FALSE)
        ELSE IF response.status >= 500 THEN HealthResult("down", FALSE)
        ELSE IF response.status >= 400 /\ response.status < 500
            THEN HealthResult("unstable", FALSE)
        ELSE IF response.status >= 200 /\ response.status < 400 THEN
            IF responseTime > 5000 THEN HealthResult("slow", FALSE)
            ELSE IF responseTime > 3000 THEN HealthResult("slow", TRUE)
            ELSE HealthResult("healthy", TRUE)
        ELSE HealthResult("error", FALSE)
    ELSE HealthResult("error", FALSE)

\* Mutant: a response time of exactly 5000 ms already counts as unhealthy.
determineHealthStatus_SlowAt5000(response, responseTime, error) ==
    IF error.present THEN
        IF "timeout" \in error.words \/ "aborted" \in error.words
            THEN HealthResult("timeout", FALSE)
        ELSE IF "ssl" \in error.words \/ "certificate" \in error.words
            THEN HealthResult("ssl_error", FALSE)
        ELSE IF "dns" \in error.words \/ "name resolution" \in error.words
            THEN HealthResult("dns_error", FALSE)
        ELSE IF "network" \in error.words \/ "connection" \in error.words
            THEN HealthResult("down", FALSE)
        ELSE HealthResult("error", FALSE)
    ELSE IF response.present THEN
        IF response.status >= 300 /\ response.status < 400 /\ response.locationHasRedirect
            THEN HealthResult("redirect_loop", FALSE)
        ELSE IF response.status >= 500 THEN HealthResult("down", FALSE)
        ELSE IF response.status >= 400 /\ response.status < 500
            THEN HealthResult("unstable", FALSE)
        ELSE IF response.status >= 200 /\ response.status < 400 THEN
            IF responseTime >= 5000 THEN HealthResult("slow", FALSE)
            ELSE IF responseTime > 3000 THEN HealthResult("slow", TRUE)
            ELSE HealthResult("healthy", TRUE)
        ELSE HealthResult("error", FALSE)
    ELSE HealthResult("error", FALSE)

\* determineHealthStatus: the error branch first, then the response branch.
determineHealthStatus(response, responseTime, error) ==
    IF error.present THEN
        IF "timeout" \in error.words \/ "aborted" \in error.words
            THEN HealthResult("timeout", FALSE)
        ELSE IF "ssl" \in error.words \/ "certificate" \in error.words
            THEN HealthResult("ssl_error", FALSE)
        ELSE IF "dns" \in error.words \/ "name resolution" \in error.words
            THEN HealthResult("dns_error", FALSE)
        ELSE IF "network" \in error.words \/ "connection" \in error.words
            THEN HealthResult("down", FALSE)
        ELSE HealthResult("error", FALSE)
    ELSE IF response.present THEN
        IF response.status >= 300 /\ response.status < 400 /\ response.locationHasRedirect
            THEN HealthResult("redirect_loop", FALSE)
        ELSE IF response.status >= 500 THEN HealthResult("down", FALSE)
        ELSE IF response.status >= 400 /\ response.status < 500
            THEN HealthResult("unstable", FALSE)
        ELSE IF response.status >= 200 /\ response.status < 400 THEN
            IF responseTime > 5000 THEN HealthResult("slow", FALSE)
            ELSE IF responseTime > 3000 THEN HealthResult("slow", TRUE)
            ELSE HealthResult("healthy", TRUE)
        ELSE HealthResult("error", FALSE)
    ELSE HealthResult("error", FALSE)

\* Arguments of the convex.mutation call made by executeConvexWrites.
executeConvexWrites(urlId, userId, healthCheckData, clickEvent) ==
    [urlId |-> urlId, userId |-> userId,
     urlStatusCode |-> healthCheckData.responseStatus,
     urlStatusMessage |-> healthCheckData.healthStatus,
     clickEvent |-> clickEvent]

\* The call of executeConvexWrites that performHealthCheck makes once the
\* probe's fetch has settled: the try branch passes the response's status and
\* the clickEvent, the catch branch passes status 0 and no clickEvent.
performHealthCheck(outcome, urlId, userId, clickEvent) ==
    IF outcome.kind = "response"
    THEN executeConvexWrites(urlId, userId,
            [responseStatus |-> outcome.response.status,
             healthStatus |-> determineHealthStatus(outcome.response,
                                  outcome.responseTime, NoProbeError).status],
            clickEvent)
    ELSE executeConvexWrites(urlId, userId,
            [responseStatus |-> 0,
             healthStatus |-> determineHealthStatus(NoProbeResponse,
                                  outcome.responseTime, outcome.error).status],
            NoClickEvent)

\* Mutant: executeConvexWrites has no try/catch: a failed mutation call made
\* in performHealthCheck's try branch lands in its catch branch, which calls
\* executeConvexWrites again; one made in the catch branch rejects the task.
OnMutationFailure_NoCatch(branch) == IF branch = "try" THEN "retry" ELSE "reject"

\* executeConvexWrites catches a rejected convex.mutation and logs a warning.
OnMutationFailure(branch) == "caught"

\* How sendAnalyticsEvent(...).then(drainOrCancel) settles.  The fetch
\* rejects ("rejected") or yields a response: drainOrCancel reads the body of
\* an ok response ("ok"; "okBodyFails" when the read rejects) and cancels the
\* body of any other ("notOk"); it catches whatever these throw.
DispatchOutcomes == {"ok", "okBodyFails", "notOk", "rejected"}
drainOrCancel(res) == "fulfilled"
AfterDispatch(outcome) == IF outcome = "rejected" THEN "rejected" ELSE drainOrCancel(outcome)

\* The promises pushed on `tasks`: "none" when the task is not created.
TaskNames == {"analytics", "ingest", "health"}
NoTasks == [analytics |-> "none", ingest |-> "none", health |-> "none"]
TaskSettled(t, n) == t[n] \in {"none", "fulfilled", "rejected"}

\* The tasks created after the event is built.
StartTasks(bindings, redisValue, ev) ==
    [analytics |-> IF bindings.ANALYTICS_ENDPOINT /\ bindings.ANALYTICS_TOKEN
                   THEN "pending" ELSE "none",
     ingest |-> IF bindings.API_SECRET THEN "pending" ELSE "none",
     health |-> IF ShouldProbe(redisValue, ev) THEN "probing" ELSE "none"]

\* Mutant: the tasks are awaited with Promise.all, which settles at the first
\* rejection.
AwaitTasks_FailFast(t) ==
    IF (\A n \in TaskNames : TaskSettled(t, n)) \/ (\E n \in TaskNames : t[n] = "rejected")
    THEN "done" ELSE "dispatching"

\* `if (tasks.length) await Promise.allSettled(tasks)`: the function handed
\* to waitUntil finishes once every task has settled.
AwaitTasks(t) ==
    IF \A n \in TaskNames : TaskSettled(t, n) THEN "done" ELSE "dispatching"

\* ------------------------------------------------------------------- state
VARIABLES
    pc,          \* position of each request's handler
    slug,        \* c.req.param("websiteSlug") of each request
    sessionId,   \* session fingerprint the handler derived from the request headers
    store,       \* backing store: slug -> RedisValueObject or Absent
    storeWrites, \* number of changes made to each slug's record so far
    cache,       \* edge cache "redirects": cache key -> cached Location
    slugWarmups, \* the coalescing map: slug -> leader whose promise is stored (0: none)
    wstate,      \* state of the warmupPromise created by each leader
    wresult,     \* value the warmupPromise resolves with
    cached,      \* the handler's local `cached` (result of cache.match)
    awaiting,    \* promise (leader id) a miss-path request awaits (0: none)
    startedWarmup, \* the handler's local flag
    observed,    \* what `await warmupPromise` / `await existingWarmup` yielded
    response,    \* response returned to the client
    deferred,    \* work handed to executionCtx.waitUntil by the request
    fetches,     \* calls of redis.json.get issued by each request
    puts,        \* calls of cache.put issued by each request
    putResult,   \* how the cache.put of each request settled
    variantId,   \* the handler's local `variantId` ("null": none)
    env,         \* c.env: which bindings of the deferred work are configured
    tpc,         \* position of the async function each request handed to waitUntil
    event,       \* the analytics event built for each request
    tasks,       \* state of the promises pushed on `tasks`
    probe,       \* outcome of the health probe's fetch
    mutations,   \* arguments of the convex.mutation calls made for each request
    mutationResult, \* how the last convex.mutation call settled
    tlog,        \* warn/error messages logged by the deferred work
    marker,      \* keys `session:<sessionId>:<slug>` that Redis holds
    fpc,         \* position of each request in buildAnalyticsInput's first-click block
    firstClickOfSession, \* buildAnalyticsInput's local of that name
    callArgs,    \* arguments of a call of one of the pure helpers
    callResult   \* what the call returned

deferredVars == <<env, tpc, event, tasks, probe, mutations, mutationResult, tlog>>

sessionVars == <<marker, fpc, firstClickOfSession>>

callVars == <<callArgs, callResult>>

vars == <<pc, slug, sessionId, store, storeWrites, cache, slugWarmups, wstate,
          wresult, cached, awaiting, startedWarmup, observed, response, deferred,
          fetches, puts, putResult, variantId, deferredVars, sessionVars, callVars>>

InitialStore == [s \in Slugs |-> StoreHistory(s)[1]]

NoCacheEntry == [has |-> FALSE, location |-> NoLocation]
\* `cached` of a request whose caches.open / cache.match threw.
CacheReadError ==
    [has |-> FALSE, location |-> [valid |-> FALSE, host |-> "<read failed>", q |-> {}]]

\* The edge cache outlives the worker instance: when the instance starts the
\* cache is empty or still holds what an earlier instance stored for a slug.
EmptyCache == [s \in Slugs |-> NoCacheEntry]
WarmCache ==
    [s \in Slugs |->
        IF getUrlFromRedis(InitialStore[s]).kind = "found"
        THEN [has |-> TRUE, location |-> CacheableLocation(getUrlFromRedis(InitialStore[s]))]
        ELSE NoCacheEntry]

\* makeCacheKeyFromContext for the requests of the model, which share one
\* origin and differ in the slug path only.
CacheKey(r) == slug[r]

\* The handler's state when the worker instance starts.
InitHandler ==
    /\ pc = [r \in Reqs |-> "idle"]
    /\ slug = [r \in Reqs |-> "s1"]
    /\ sessionId = [r \in Reqs |-> <<97>>]
    /\ store = InitialStore
    /\ storeWrites = [s \in Slugs |-> 0]
    /\ cache \in {EmptyCache, WarmCache}
    /\ slugWarmups = [s \in Slugs |-> 0]
    /\ wstate = [r \in Reqs |-> "none"]
    /\ wresult = [r \in Reqs |-> Undefined]
    /\ cached = [r \in Reqs |-> NoCacheEntry]
    /\ awaiting = [r \in Reqs |-> 0]
    /\ startedWarmup = [r \in Reqs |-> FALSE]
    /\ observed = [r \in Reqs |-> Undefined]
    /\ response = [r \in Reqs |-> NoResponse]
    /\ deferred = [r \in Reqs |-> "none"]
    /\ fetches = [r \in Reqs |-> 0]
    /\ puts = [r \in Reqs |-> 0]
    /\ putResult = [r \in Reqs |-> "none"]
    /\ variantId = [r \in Reqs |-> "null"]

\* No deferred work has been handed to waitUntil yet.
DeferredIdle ==
    /\ tpc = [r \in Reqs |-> "none"]
    /\ event = [r \in Reqs |-> NoEvent]
    /\ tasks = [r \in Reqs |-> NoTasks]
    /\ probe = [r \in Reqs |-> NoProbe]
    /\ mutations = [r \in Reqs |-> <<>>]
    /\ mutationResult = [r \in Reqs |-> "none"]
    /\ tlog = [r \in Reqs |-> {}]

\* Redis holds no session marker and no request has reached the first-click
\* block (`let firstClickOfSession = true`).
SessionIdle ==
    /\ marker = {}
    /\ fpc = [r \in Reqs |-> "none"]
    /\ firstClickOfSession = [r \in Reqs |-> TRUE]

NoCall == [fn |-> "none"]

\* None of the pure helpers is being called on its own.
CallIdle ==
    /\ callArgs = NoCall
    /\ callResult = NoCall

Init == InitHandler /\ env = ProductionEnv /\ DeferredIdle /\ SessionIdle /\ CallIdle

\* --------------------------------------------------------------- operations
\* Mutant: the lookup in the map never finds a pending warmup.
ExistingWarmup_Never(map, s) == 0

\* slugWarmups.get(slug): 0 stands for undefined.
ExistingWarmup(map, s) == map[s]

\* Mutant: the promise is not stored in the map.
SetWarmup_Dropped(map, s, leader) == map

\* slugWarmups.set(slug, warmupPromise)
SetWarmup(map, s, leader) == [map EXCEPT ![s] = leader]

\* Mutant: the finally callback leaves the entry in the map.
FinallyDelete_Skipped(map, s, settledAs) == map

\* Mutant: the callback clears the whole map.
FinallyDelete_Clear(map, s, settledAs) == [x \in DOMAIN map |-> 0]

\* Mutant: the callback is attached with then(), so it runs on success only.
FinallyDelete_OnSuccessOnly(map, s, settledAs) ==
    IF settledAs = "rejected" THEN map ELSE [map EXCEPT ![s] = 0]

\* Mutant: the callback is attached with catch(), so it runs on failure only.
FinallyDelete_OnFailureOnly(map, s, settledAs) ==
    IF settledAs = "rejected" THEN [map EXCEPT ![s] = 0] ELSE map

\* .finally(() => { slugWarmups.delete(slug); }): runs however the warmup's
\* body settled.
FinallyDelete(map, s, settledAs) == [map EXCEPT ![s] = 0]

\* Mutant: no try/catch around cache.put, a failed write rejects the warmup.
AfterCachePut_NoCatch(putOk) == IF putOk THEN "resolved" ELSE "rejected"

\* Settlement of the warmup's async body after `await cache.put(...)`: the
\* try/catch around the write swallows a rejection and `return result` runs.
AfterCachePut(putOk) == "resolved"

\* Settlement of the warmup's async body when `await getUrlFromRedis(...)`
\* rejects: no catch, the body rejects.
AfterFetchError == "rejected"

\* What the handler answers when the awaited warmup promise rejects: the
\* exception leaves the handler.
OnWarmupRejected == InternalError

\* Mutant: a request that joins a pending warmup writes the cache as well.
CacheWritesOnJoin_Writes(existingWarmup) == 1

\* Calls of cache.put made by a request that found a pending warmup: the
\* branch only awaits the stored promise.
CacheWritesOnJoin(existingWarmup) == 0

\* Mutant: the write is acknowledged but the entry is not kept.
CachePut_Lost(c, key, location) == c

\* A successful cache.put(cacheKey, buildCacheableRedirectResponse(finalUrl)):
\* the cache holds the response's Location under the key.
CachePut(c, key, location) == [c EXCEPT ![key] = [has |-> TRUE, location |-> location]]

\* The request is routed to the handler; `await caches.open("redirects")`.
Arrive(r, s) ==
    /\ pc[r] = "idle"
    /\ r > 1 => pc[r - 1] /= "idle"
    /\ pc' = [pc EXCEPT ![r] = "open"]
    /\ slug' = [slug EXCEPT ![r] = s]
    /\ UNCHANGED <<sessionId, store, storeWrites, cache, slugWarmups, wstate, wresult,
                   cached, awaiting, startedWarmup, observed, response, deferred,
                   fetches, puts, putResult,
                   variantId, deferredVars,
                   sessionVars, callVars>>

\* caches.open resolves; checkCacheAndReturnElseSave calls cache.match.
CacheOpened(r) ==
    /\ pc[r] = "open"
    /\ pc' = [pc EXCEPT ![r] = "match"]
    /\ UNCHANGED <<slug, sessionId, store, storeWrites, cache, slugWarmups, wstate,
                   wresult, cached, awaiting, startedWarmup, observed, response,
                   deferred, fetches, puts, putResult,
                   variantId, deferredVars,
                   sessionVars, callVars>>

\* caches.open or cache.match rejects: nothing in the handler catches it.
CacheReadFails(r) ==
    /\ pc[r] \in {"open", "match"}
    /\ pc' = [pc EXCEPT ![r] = "done"]
    /\ cached' = [cached EXCEPT ![r] = CacheReadError]
    /\ response' = [response EXCEPT ![r] = InternalError]
    /\ UNCHANGED <<slug, sessionId, store, storeWrites, cache, slugWarmups, wstate,
                   wresult, awaiting, startedWarmup, observed, deferred, fetches, puts,
                   putResult,
                   variantId, deferredVars,
                   sessionVars, callVars>>

\* cache.match finds an entry: the hit path calls getUrlFromRedis and awaits it.
CacheHit(r) ==
    /\ pc[r] = "match"
    /\ cache[CacheKey(r)].has
    /\ pc' = [pc EXCEPT ![r] = "hitFetch"]
    /\ cached' = [cached EXCEPT ![r] = cache[CacheKey(r)]]
    /\ fetches' = [fetches EXCEPT ![r] = @ + 1]
    /\ UNCHANGED <<slug, sessionId, store, storeWrites, cache, slugWarmups, wstate,
                   wresult, awaiting, startedWarmup, observed, response, deferred,
                   puts, putResult,
                   variantId, deferredVars,
                   sessionVars, callVars>>

\* The hit path's store lookup settles (a rejection is caught, redisValue
\* stays null); the variant is re-derived, telemetry is handed to waitUntil and
\* the client is answered.
HitAnswer(r, fetchOk, sid, draw) ==
    /\ pc[r] = "hitFetch"
    /\ sessionId' = [sessionId EXCEPT ![r] = sid]
    /\ LET result == IF fetchOk THEN getUrlFromRedis(store[slug[r]]) ELSE Rejected
           destination == HitDestination(cached[r].location, result, sid, draw)
       IN  response' = [response EXCEPT ![r] =
                IF destination /= EmptyString
                THEN buildClientRedirectResponse(destination) ELSE NotFound]
    /\ observed' = [observed EXCEPT ![r] =
            IF fetchOk /\ getUrlFromRedis(store[slug[r]]).kind = "found"
            THEN getUrlFromRedis(store[slug[r]]) ELSE Undefined]
    /\ variantId' = [variantId EXCEPT ![r] =
            HitVariantId(IF fetchOk THEN getUrlFromRedis(store[slug[r]]) ELSE Rejected,
                         sid, draw)]
    /\ deferred' = [deferred EXCEPT ![r] = "telemetry"]
    /\ pc' = [pc EXCEPT ![r] = "done"]
    /\ UNCHANGED <<slug, store, storeWrites, cache, slugWarmups, wstate, wresult,
                   cached, awaiting, startedWarmup, fetches, puts, putResult,
                   deferredVars,
                   sessionVars, callVars>>

\* cache.match finds nothing and slugWarmups has a promise for the slug:
\* `redisResult = await existingWarmup`.
JoinWarmup(r) ==
    /\ pc[r] = "match"
    /\ ~cache[CacheKey(r)].has
    /\ ExistingWarmup(slugWarmups, slug[r]) /= 0
    /\ awaiting' = [awaiting EXCEPT ![r] = ExistingWarmup(slugWarmups, slug[r])]
    /\ puts' = [puts EXCEPT ![r] = @ + CacheWritesOnJoin(ExistingWarmup(slugWarmups, slug[r]))]
    /\ pc' = [pc EXCEPT ![r] = "await"]
    /\ UNCHANGED <<slug, sessionId, store, storeWrites, cache, slugWarmups, wstate,
                   wresult, cached, startedWarmup, observed, response, deferred,
                   fetches, putResult,
                   variantId, deferredVars,
                   sessionVars, callVars>>

\* cache.match finds nothing and slugWarmups has no promise for the slug: the
\* request creates warmupPromise (whose body calls getUrlFromRedis at once),
\* stores it in the map and awaits it.
StartWarmup(r) ==
    /\ pc[r] = "match"
    /\ ~cache[CacheKey(r)].has
    /\ ExistingWarmup(slugWarmups, slug[r]) = 0
    /\ startedWarmup' = [startedWarmup EXCEPT ![r] = TRUE]
    /\ wstate' = [wstate EXCEPT ![r] = "fetching"]
    /\ fetches' = [fetches EXCEPT ![r] = @ + 1]
    /\ slugWarmups' = SetWarmup(slugWarmups, slug[r], r)
    /\ awaiting' = [awaiting EXCEPT ![r] = r]
    /\ pc' = [pc EXCEPT ![r] = "await"]
    /\ UNCHANGED <<slug, sessionId, store, storeWrites, cache, wresult, cached,
                   observed, response, deferred, puts, putResult,
                   variantId, deferredVars,
                   sessionVars, callVars>>

\* The warmup's getUrlFromRedis resolves with a record whose destination
\* parses: the body calls cache.put and awaits it (the map entry stays).
WarmupFetchFound(l) ==
    /\ wstate[l] = "fetching"
    /\ getUrlFromRedis(store[slug[l]]).kind = "found"
    /\ wresult' = [wresult EXCEPT ![l] = getUrlFromRedis(store[slug[l]])]
    /\ wstate' = [wstate EXCEPT ![l] = "putting"]
    /\ puts' = [puts EXCEPT ![l] = @ + 1]
    /\ UNCHANGED <<pc, slug, sessionId, store, storeWrites, cache, slugWarmups, cached,
                   awaiting, startedWarmup, observed, response, deferred, fetches,
                   putResult,
                   variantId, deferredVars,
                   sessionVars, callVars>>

\* The warmup's getUrlFromRedis resolves with undefined: the body returns it,
\* the finally callback deletes the map entry and warmupPromise resolves.
WarmupFetchNone(l) ==
    /\ wstate[l] = "fetching"
    /\ getUrlFromRedis(store[slug[l]]).kind = "undefined"
    /\ wresult' = [wresult EXCEPT ![l] = Undefined]
    /\ wstate' = [wstate EXCEPT ![l] = "resolved"]
    /\ slugWarmups' = FinallyDelete(slugWarmups, slug[l], "resolved")
    /\ UNCHANGED <<pc, slug, sessionId, store, storeWrites, cache, cached, awaiting,
                   startedWarmup, observed, response, deferred, fetches, puts,
                   putResult,
                   variantId, deferredVars,
                   sessionVars, callVars>>

\* The warmup's getUrlFromRedis rejects: the body rejects, the finally callback
\* deletes the map entry and warmupPromise rejects.
WarmupFetchFails(l) ==
    /\ wstate[l] = "fetching"
    /\ wresult' = [wresult EXCEPT ![l] = Rejected]
    /\ wstate' = [wstate EXCEPT ![l] = AfterFetchError]
    /\ slugWarmups' = FinallyDelete(slugWarmups, slug[l], AfterFetchError)
    /\ UNCHANGED <<pc, slug, sessionId, store, storeWrites, cache, cached, awaiting,
                   startedWarmup, observed, response, deferred, fetches, puts,
                   putResult,
                   variantId, deferredVars,
                   sessionVars, callVars>>

\* The warmup's cache.put settles: on success the cache holds the canonical
\* destination with UTM parameters under the leader's cache key; either way
\* the body returns the record, the finally callback deletes the map entry and
\* warmupPromise settles.
WarmupPutSettles(l, putOk) ==
    /\ wstate[l] = "putting"
    /\ cache' = IF putOk
                THEN CachePut(cache, CacheKey(l), CacheableLocation(wresult[l]))
                ELSE cache
    /\ wstate' = [wstate EXCEPT ![l] = AfterCachePut(putOk)]
    /\ wresult' = [wresult EXCEPT ![l] =
                        IF AfterCachePut(putOk) = "resolved" THEN @ ELSE Rejected]
    /\ slugWarmups' = FinallyDelete(slugWarmups, slug[l], AfterCachePut(putOk))
    /\ putResult' = [putResult EXCEPT ![l] = IF putOk THEN "stored" ELSE "failed"]
    /\ UNCHANGED <<pc, slug, sessionId, store, storeWrites, cached, awaiting,
                   startedWarmup, observed, response, deferred, fetches, puts,
                   variantId, deferredVars,
                   sessionVars, callVars>>

\* `await warmupPromise` / `await existingWarmup` returns or throws in a
\* request: not-found, or variant resolution and the redirect; only the
\* request that started the warmup hands telemetry to waitUntil.
Resume(r, sid, draw) ==
    /\ pc[r] = "await"
    /\ sessionId' = [sessionId EXCEPT ![r] = sid]
    /\ wstate[awaiting[r]] \in {"resolved", "rejected"}
    /\ observed' = [observed EXCEPT ![r] = wresult[awaiting[r]]]
    /\ response' = [response EXCEPT ![r] =
            IF wstate[awaiting[r]] = "rejected" THEN OnWarmupRejected
            ELSE IF wresult[awaiting[r]].kind /= "found" THEN NotFound
            ELSE buildClientRedirectResponse(
                    MissFinalUrl(wresult[awaiting[r]].redisValue, sid, draw))]
    /\ deferred' = [deferred EXCEPT ![r] =
            IF wstate[awaiting[r]] = "resolved" /\ wresult[awaiting[r]].kind = "found"
               /\ startedWarmup[r]
            THEN "telemetry" ELSE "none"]
    /\ variantId' = [variantId EXCEPT ![r] =
            IF wstate[awaiting[r]] = "resolved" /\ wresult[awaiting[r]].kind = "found"
            THEN MissVariantId(wresult[awaiting[r]].redisValue, sid, draw)
            ELSE "null"]
    /\ pc' = [pc EXCEPT ![r] = "done"]
    /\ UNCHANGED <<slug, store, storeWrites, cache, slugWarmups, wstate, wresult,
                   cached, awaiting, startedWarmup, fetches, puts, putResult,
                   deferredVars,
                   sessionVars, callVars>>

\* The owner of a link changes or removes its record in the backing store.
StoreWrite(s) ==
    /\ storeWrites[s] + 1 < Len(StoreHistory(s))
    /\ storeWrites' = [storeWrites EXCEPT ![s] = @ + 1]
    /\ store' = [store EXCEPT ![s] = StoreHistory(s)[storeWrites[s] + 2]]
    /\ UNCHANGED <<pc, slug, sessionId, cache, slugWarmups, wstate, wresult, cached,
                   awaiting, startedWarmup, observed, response, deferred, fetches,
                   puts, putResult,
                   variantId, deferredVars,
                   sessionVars, callVars>>

\* A lookup of slug s in the backing store is in flight.
LookupInFlight(s) ==
    \E r \in Reqs : slug[r] = s /\ (pc[r] = "hitFetch" \/ wstate[r] = "fetching")

\* A change of a record is seen by the lookups that are answered after it; a
\* change made while no lookup of the slug is in flight is seen exactly like
\* the same change made once the next lookup is in flight, so the changes are
\* taken at those moments.
Next ==
    \/ \E r \in Reqs, s \in Slugs : Arrive(r, s)
    \/ \E r \in Reqs : CacheOpened(r)
    \/ \E r \in Reqs : CacheReadFails(r)
    \/ \E r \in Reqs : CacheHit(r)
    \/ \E r \in Reqs, fetchOk \in BOOLEAN, sid \in SessionIds, draw \in Draws :
          HitAnswer(r, fetchOk, sid, draw)
    \/ \E r \in Reqs : JoinWarmup(r)
    \/ \E r \in Reqs : StartWarmup(r)
    \/ \E l \in Reqs : WarmupFetchFound(l)
    \/ \E l \in Reqs : WarmupFetchNone(l)
    \/ \E l \in Reqs : WarmupFetchFails(l)
    \/ \E l \in Reqs, putOk \in BOOLEAN : WarmupPutSettles(l, putOk)
    \/ \E r \in Reqs, sid \in SessionIds, draw \in Draws : Resume(r, sid, draw)
    \/ \E s \in Slugs : LookupInFlight(s) /\ StoreWrite(s)

Spec == Init /\ [][Next]_vars

\* The steps of request r: each is the completion of an I/O call the request
\* has pending (or its routing to the handler).
Step(r) ==
    \/ \E s \in Slugs : Arrive(r, s)
    \/ CacheOpened(r)
    \/ CacheReadFails(r)
    \/ CacheHit(r)
    \/ \E fetchOk \in BOOLEAN, sid \in SessionIds, draw \in Draws :
          HitAnswer(r, fetchOk, sid, draw)
    \/ JoinWarmup(r)
    \/ StartWarmup(r)
    \/ WarmupFetchFound(r)
    \/ WarmupFetchNone(r)
    \/ WarmupFetchFails(r)
    \/ \E putOk \in BOOLEAN : WarmupPutSettles(r, putOk)
    \/ \E sid \in SessionIds, draw \in Draws : Resume(r, sid, draw)

NextLive == \E r \in Reqs : Step(r)

\* The handler with the records left as they are, where every I/O call a
\* request has pending settles in the end (it resolves or rejects).
SpecLive == Init /\ [][NextLive]_vars /\ \A r \in Reqs : WF_vars(Step(r))

\* --------------------------------------------------- deferred work (steps)
\* The record the deferred function holds: redisValue, null (Absent) when the
\* hit path's lookup failed or found nothing.
HeldRecord(r) == IF observed[r].kind = "found" THEN observed[r].redisValue ELSE Absent

\* buildAnalyticsInput reaches the first-click block and `await
\* redis.exists(sessionKey)` settles.  With the key absent the function calls
\* redis.set and awaits it; a rejection is caught and logged, the flag keeps
\* its initial value true.
FirstClickExists(r, ok) ==
    /\ deferred[r] = "telemetry"
    /\ tpc[r] = "none"
    /\ fpc[r] = "none"
    /\ LET exists == IF SessionKey(ClientSessionId, slug[r]) \in marker THEN 1 ELSE 0
       IN  /\ firstClickOfSession' = [firstClickOfSession EXCEPT ![r] =
                    IF ok THEN FirstClickFromExists(exists) ELSE @]
           /\ fpc' = [fpc EXCEPT ![r] =
                    IF ok /\ FirstClickFromExists(exists) THEN "setting" ELSE "done"]
    /\ tlog' = [tlog EXCEPT ![r] =
            IF ok THEN @ ELSE @ \cup {"Failed to evaluate first-click flag"}]
    /\ UNCHANGED <<pc, slug, sessionId, store, storeWrites, cache, slugWarmups, wstate,
                   wresult, cached, awaiting, startedWarmup, observed, response,
                   deferred, fetches, puts, putResult, variantId, env, tpc, event,
                   tasks, probe, mutations, mutationResult, marker, callVars>>

\* `await redis.set(sessionKey, "1", { ex: 1800 })` settles: on success Redis
\* holds the marker; a rejection is caught and logged.
FirstClickSet(r, ok) ==
    /\ fpc[r] = "setting"
    /\ marker' = IF ok THEN marker \cup {SessionKey(ClientSessionId, slug[r])} ELSE marker
    /\ fpc' = [fpc EXCEPT ![r] = "done"]
    /\ tlog' = [tlog EXCEPT ![r] =
            IF ok THEN @ ELSE @ \cup {"Failed to evaluate first-click flag"}]
    /\ UNCHANGED <<pc, slug, sessionId, store, storeWrites, cache, slugWarmups, wstate,
                   wresult, cached, awaiting, startedWarmup, observed, response,
                   deferred, fetches, puts, putResult, variantId, env, tpc, event,
                   tasks, probe, mutations, mutationResult, firstClickOfSession,
                   callVars>>

\* buildAnalyticsInput resolves: the tasks are created and awaited.
BuildEvent(r, isBot) ==
    /\ deferred[r] = "telemetry"
    /\ tpc[r] = "none"
    /\ fpc[r] = "done"
    /\ LET ev == buildAnalyticsInput(response[r].location, HeldRecord(r), isBot,
                                     firstClickOfSession[r])
           t == StartTasks(env, HeldRecord(r), ev)
       IN  /\ event' = [event EXCEPT ![r] = ev]
           /\ tasks' = [tasks EXCEPT ![r] = t]
           /\ tpc' = [tpc EXCEPT ![r] = AwaitTasks(t)]
    /\ UNCHANGED <<pc, slug, sessionId, store, storeWrites, cache, slugWarmups, wstate,
                   wresult, cached, awaiting, startedWarmup, observed, response,
                   deferred, fetches, puts, putResult, variantId, env, probe,
                   mutations, mutationResult, tlog,
                   sessionVars, callVars>>

\* buildAnalyticsInput rejects: the catch of the deferred function logs it.
BuildEventFails(r) ==
    /\ deferred[r] = "telemetry"
    /\ tpc[r] = "none"
    /\ tpc' = [tpc EXCEPT ![r] = "done"]
    /\ tlog' = [tlog EXCEPT ![r] = @ \cup {"Failed to send analytics"}]
    /\ UNCHANGED <<pc, slug, sessionId, store, storeWrites, cache, slugWarmups, wstate,
                   wresult, cached, awaiting, startedWarmup, observed, response,
                   deferred, fetches, puts, putResult, variantId, env, event, tasks,
                   probe, mutations, mutationResult,
                   sessionVars, callVars>>

\* The POST to a metrics endpoint settles and drainOrCancel has run.
DispatchSettles(r, n, outcome) ==
    /\ tpc[r] = "dispatching"
    /\ n \in {"analytics", "ingest"}
    /\ tasks[r][n] = "pending"
    /\ tasks' = [tasks EXCEPT ![r][n] = AfterDispatch(outcome)]
    /\ tpc' = [tpc EXCEPT ![r] = AwaitTasks(tasks'[r])]
    /\ UNCHANGED <<pc, slug, sessionId, store, storeWrites, cache, slugWarmups, wstate,
                   wresult, cached, awaiting, startedWarmup, observed, response,
                   deferred, fetches, puts, putResult, variantId, env, event, probe,
                   mutations, mutationResult, tlog,
                   sessionVars, callVars>>

\* The health probe's HEAD request settles (response, error or abort after
\* the timeout): performHealthCheck calls executeConvexWrites, which calls
\* convex.mutation.
ProbeSettles(r, outcome) ==
    /\ tpc[r] = "dispatching"
    /\ tasks[r].health = "probing"
    /\ probe' = [probe EXCEPT ![r] = outcome]
    /\ mutations' = [mutations EXCEPT ![r] =
            Append(@, performHealthCheck(outcome, HeldRecord(r).link_id,
                                         HeldRecord(r).user_id, ClickEvent(slug[r])))]
    /\ tasks' = [tasks EXCEPT ![r].health = "writing"]
    /\ UNCHANGED <<pc, slug, sessionId, store, storeWrites, cache, slugWarmups, wstate,
                   wresult, cached, awaiting, startedWarmup, observed, response,
                   deferred, fetches, puts, putResult, variantId, env, tpc, event,
                   mutationResult, tlog,
                   sessionVars, callVars>>

\* convex.mutation settles and performHealthCheck runs to its end.
MutationSettles(r, ok) ==
    /\ tpc[r] = "dispatching"
    /\ tasks[r].health = "writing"
    /\ LET branch == IF probe[r].kind = "response" /\ Len(mutations[r]) = 1
                     THEN "try" ELSE "catch"
           after == IF ok THEN "returned" ELSE OnMutationFailure(branch)
       IN  /\ mutationResult' = [mutationResult EXCEPT ![r] = IF ok THEN "ok" ELSE "failed"]
           /\ mutations' = [mutations EXCEPT ![r] =
                IF after = "retry"
                THEN Append(@, performHealthCheck(ProbeFailed({}, probe[r].responseTime),
                                   HeldRecord(r).link_id, HeldRecord(r).user_id,
                                   ClickEvent(slug[r])))
                ELSE @]
           /\ tasks' = [tasks EXCEPT ![r].health =
                IF after = "retry" THEN "writing"
                ELSE IF after = "reject" THEN "rejected" ELSE "fulfilled"]
           /\ tlog' = [tlog EXCEPT ![r] =
                @ \cup (IF after = "caught" THEN {"Convex write failed"} ELSE {})
                  \cup (IF after \in {"returned", "caught"} /\ branch = "catch"
                        THEN {"Health check failed"} ELSE {})]
    /\ tpc' = [tpc EXCEPT ![r] = AwaitTasks(tasks'[r])]
    /\ UNCHANGED <<pc, slug, sessionId, store, storeWrites, cache, slugWarmups, wstate,
                   wresult, cached, awaiting, startedWarmup, observed, response,
                   deferred, fetches, puts, putResult, variantId, env, event, probe,
                   sessionVars, callVars>>

\* A record in the backing store is left without its link id or its user id.
StoreDropsOwner(s, field) ==
    /\ store[s].present
    /\ store[s].link_id /= "" /\ store[s].user_id /= ""
    /\ store' = [store EXCEPT ![s] =
            IF field = "link_id" THEN [@ EXCEPT !.link_id = ""] ELSE [@ EXCEPT !.user_id = ""]]
    /\ UNCHANGED <<pc, slug, sessionId, storeWrites, cache, slugWarmups, wstate, wresult,
                   cached, awaiting, startedWarmup, observed, response, deferred,
                   fetches, puts, putResult, variantId, deferredVars,
                   sessionVars, callVars>>

\* One request handled from its arrival to the end of its deferred work, under
\* any configuration of the bindings.  The deferred work of a request reads
\* the request's own locals only, so it is followed for a single request.
FirstReq == {1}

InitDeferred == InitHandler /\ env \in Envs /\ DeferredIdle /\ SessionIdle /\ CallIdle

NextDeferred ==
    \/ \E r \in FirstReq, s \in Slugs : Arrive(r, s)
    \/ \E r \in FirstReq : CacheOpened(r)
    \/ \E r \in FirstReq : CacheReadFails(r)
    \/ \E r \in FirstReq : CacheHit(r)
    \/ \E r \in FirstReq, fetchOk \in BOOLEAN, sid \in SessionIds, draw \in Draws :
          HitAnswer(r, fetchOk, sid, draw)
    \/ \E r \in FirstReq : StartWarmup(r)
    \/ \E l \in FirstReq : WarmupFetchFound(l)
    \/ \E l \in FirstReq : WarmupFetchNone(l)
    \/ \E l \in FirstReq : WarmupFetchFails(l)
    \/ \E l \in FirstReq, putOk \in BOOLEAN : WarmupPutSettles(l, putOk)
    \/ \E r \in FirstReq, sid \in SessionIds, draw \in Draws : Resume(r, sid, draw)
    \/ \E s \in Slugs : StoreWrite(s)
    \/ \E s \in Slugs, field \in {"link_id", "user_id"} : StoreDropsOwner(s, field)
    \/ \E r \in FirstReq, ok \in BOOLEAN : FirstClickExists(r, ok)
    \/ \E r \in FirstReq, ok \in BOOLEAN : FirstClickSet(r, ok)
    \/ \E r \in FirstReq, isBot \in BOOLEAN : BuildEvent(r, isBot)
    \/ \E r \in FirstReq : BuildEventFails(r)
    \/ \E r \in FirstReq, n \in TaskNames, outcome \in DispatchOutcomes :
          DispatchSettles(r, n, outcome)
    \/ \E r \in FirstReq, outcome \in ProbeOutcomes : ProbeSettles(r, outcome)
    \/ \E r \in FirstReq, ok \in BOOLEAN : MutationSettles(r, ok)

SpecDeferred == InitDeferred /\ [][NextDeferred]_vars

\* The requests of one client (a crawler, so that no health probe starts; the
\* first-click block does not look at the bot flag), each followed up to the
\* event its deferred function builds.  No binding of a metrics endpoint is
\* set and the records stay as they are.
InitSession ==
    InitHandler /\ env = Env(FALSE, FALSE, FALSE) /\ DeferredIdle /\ SessionIdle /\ CallIdle

NextSession ==
    \/ \E r \in Reqs, s \in Slugs : Arrive(r, s)
    \/ \E r \in Reqs : CacheOpened(r)
    \/ \E r \in Reqs : CacheReadFails(r)
    \/ \E r \in Reqs : CacheHit(r)
    \/ \E r \in Reqs, fetchOk \in BOOLEAN, sid \in SessionIds, draw \in Draws :
          HitAnswer(r, fetchOk, sid, draw)
    \/ \E r \in Reqs : JoinWarmup(r)
    \/ \E r \in Reqs : StartWarmup(r)
    \/ \E l \in Reqs : WarmupFetchFound(l)
    \/ \E l \in Reqs : WarmupFetchNone(l)
    \/ \E l \in Reqs : WarmupFetchFails(l)
    \/ \E l \in Reqs, putOk \in BOOLEAN : WarmupPutSettles(l, putOk)
    \/ \E r \in Reqs, sid \in SessionIds, draw \in Draws : Resume(r, sid, draw)
    \/ \E r \in Reqs, ok \in BOOLEAN : FirstClickExists(r, ok)
    \/ \E r \in Reqs, ok \in BOOLEAN : FirstClickSet(r, ok)
    \/ \E r \in Reqs : BuildEvent(r, TRUE)
    \/ \E r \in Reqs : BuildEventFails(r)

SpecSession == InitSession /\ [][NextSession]_vars

\* ----------------------------------------------- records edited between requests
\* No request is being handled.
Quiet == \A r \in Reqs : pc[r] \in {"idle", "done"}

\* Before the requests arrive the owner switches the experiment of a record
\* off, empties its variant list, removes the experiment from the record, or
\* stores variant URLs that do not parse.
StoreEditsExperiment(s, how) ==
    /\ \A r \in Reqs : pc[r] = "idle"
    /\ store[s].present
    /\ store[s].ab_test.present /\ store[s].ab_test.enabled
    /\ Len(store[s].ab_test.variants) > 0
    /\ store' = [store EXCEPT ![s] =
            IF how = "disabled" THEN [@ EXCEPT !.ab_test.enabled = FALSE]
            ELSE IF how = "empty" THEN [@ EXCEPT !.ab_test.variants = <<>>]
            ELSE IF how = "unparsable"
                 THEN [@ EXCEPT !.ab_test.variants =
                            [k \in 1..Len(@) |-> [@[k] EXCEPT !.url = NotAUrl]]]
            ELSE [@ EXCEPT !.ab_test = NoAB]]
    /\ UNCHANGED <<pc, slug, sessionId, storeWrites, cache, slugWarmups, wstate, wresult,
                   cached, awaiting, startedWarmup, observed, response, deferred,
                   fetches, puts, putResult, variantId, deferredVars,
                   sessionVars, callVars>>

\* The handler where the records are changed only while no request is being
\* handled: every request is handled after the changes made so far, and none
\* is made while it is handled.
NextEdited ==
    \/ NextLive
    \/ \E s \in Slugs : Quiet /\ StoreWrite(s)

SpecEdited == Init /\ [][NextEdited]_vars

\* The handler for records whose experiment was edited beforehand.
NextExperiment ==
    \/ NextLive
    \/ \E s \in Slugs, how \in {"disabled", "empty", "removed"} : StoreEditsExperiment(s, how)

SpecExperiment == Init /\ [][NextExperiment]_vars

\* Before the requests arrive the owner deactivates a link.
StoreDeactivates(s) ==
    /\ \A r \in Reqs : pc[r] = "idle"
    /\ store[s].present /\ store[s].is_active
    /\ store' = [store EXCEPT ![s] = [@ EXCEPT !.is_active = FALSE]]
    /\ UNCHANGED <<pc, slug, sessionId, storeWrites, cache, slugWarmups, wstate, wresult,
                   cached, awaiting, startedWarmup, observed, response, deferred,
                   fetches, puts, putResult, variantId, deferredVars,
                   sessionVars, callVars>>

\* The handler for links that were deactivated beforehand.
NextInactive ==
    \/ NextLive
    \/ \E s \in Slugs : StoreDeactivates(s)

SpecInactive == Init /\ [][NextInactive]_vars

\* The handler for records of cached slugs that were changed or removed, or
\* whose variant URLs were made unparsable, before the requests arrive.
NextFallback ==
    \/ NextLive
    \/ \E s \in Slugs : cache[s].has /\ StoreEditsExperiment(s, "unparsable")
    \/ \E s \in Slugs : cache[s].has /\ (\A r \in Reqs : pc[r] = "idle") /\ StoreWrite(s)

SpecFallback == Init /\ [][NextFallback]_vars

\* ------------------------------------------- the pure helpers on their own
\* Everything but the call in progress stays as it is at instance start.
Quiescent ==
    UNCHANGED <<pc, slug, sessionId, store, storeWrites, cache, slugWarmups, wstate,
                wresult, cached, awaiting, startedWarmup, observed, response,
                deferred, fetches, puts, putResult, variantId, deferredVars,
                sessionVars, callArgs>>

InitQuiescent ==
    InitHandler /\ cache = EmptyCache /\ env = ProductionEnv /\ DeferredIdle /\ SessionIdle

\* Variant lists of up to MaxVariants variants; weights are not validated
\* anywhere, so zero and negative ones occur.
Weights == (-1)..MaxWeight

VariantList(weights) ==
    [k \in 1..Len(weights) |->
        [id |-> ToString(k), weight |-> weights[k], url |-> Url(ToString(k), {})]]

VariantLists ==
    UNION { {VariantList(w) : w \in [1..n -> Weights]} : n \in 0..MaxVariants }

\* The session ids handed to the deterministic selection are "a" to "f",
\* whose hashes are 97 to 102, "c0ffee", whose hash is negative, and
\* "j9geaqad", whose hash is -2^31.
InitAB ==
    /\ InitQuiescent
    /\ callArgs \in
          {[fn |-> "selectWeightedVariant", variants |-> v, draw |-> d] :
                v \in VariantLists, d \in Draws}
          \cup {[fn |-> "selectDeterministicVariant", variants |-> v, sessionId |-> sid] :
                v \in VariantLists,
                sid \in SessionIds \cup {<<99>>, <<100>>, <<101>>, <<102>>,
                                         <<99, 48, 102, 102, 101, 101>>,
                                         <<106, 57, 103, 101, 97, 113, 97, 100>>}}
    /\ callResult = NoCall

CallWeighted ==
    /\ callArgs.fn = "selectWeightedVariant"
    /\ callResult = NoCall
    /\ callResult' = [fn |-> callArgs.fn,
                      value |-> selectWeightedVariant(callArgs.variants, callArgs.draw)]
    /\ Quiescent

CallDeterministic ==
    /\ callArgs.fn = "selectDeterministicVariant"
    /\ callResult = NoCall
    /\ callResult' = [fn |-> callArgs.fn,
                      value |-> selectDeterministicVariant(callArgs.variants,
                                                           callArgs.sessionId)]
    /\ Quiescent

NextAB == CallWeighted \/ CallDeterministic

SpecAB == InitAB /\ [][NextAB]_vars

\* Keywords determineHealthStatus looks for in the lower-cased message; none
\* of them contains another, so a message can contain any subset of them.
Keywords ==
    {"timeout", "aborted", "ssl", "certificate", "dns", "name resolution",
     "network", "connection"}

ProbeStatuses == {100, 199, 200, 299, 300, 302, 399, 400, 404, 499, 500, 503}
ProbeTimes == {0, 3000, 3001, 5000, 5001, 8000}

InitHealth ==
    /\ InitQuiescent
    /\ callArgs \in
          {[fn |-> "determineHealthStatus", response |-> resp, responseTime |-> t,
            error |-> err] :
              resp \in {NoProbeResponse}
                        \cup {[present |-> TRUE, status |-> st, locationHasRedirect |-> b] :
                                  st \in ProbeStatuses, b \in BOOLEAN},
              t \in ProbeTimes,
              err \in {NoProbeError}
                       \cup {[present |-> TRUE, words |-> w] : w \in SUBSET Keywords}}
    /\ callResult = NoCall

CallHealth ==
    /\ callArgs.fn = "determineHealthStatus"
    /\ callResult = NoCall
    /\ callResult' = [fn |-> callArgs.fn,
                      value |-> determineHealthStatus(callArgs.response,
                                    callArgs.responseTime, callArgs.error)]
    /\ Quiescent

SpecHealth == InitHealth /\ [][CallHealth]_vars

\* Request URLs: scheme and host in any letter case, a path of up to
\* MaxPathLen characters (none, or starting with a slash) and a query string.
Schemes == {<<"https://">>, <<"HTTPS://">>}
Hosts == {<<"x">>, <<"X">>, <<"x", "X">>, <<"X", "x">>}
Paths ==
    {<<>>} \cup UNION { {<<"/">> \o t : t \in [1..n -> {"/", "A"}]} : n \in 0..(MaxPathLen - 1) }
Queries == {<<>>, <<"?">>, <<"?", "q">>, <<"?", "/">>}

UrlParts == [scheme : Schemes, host : Hosts, path : Paths, query : Queries]
UrlString(parts) == parts.scheme \o parts.host \o parts.path \o parts.query

InitKey ==
    /\ InitQuiescent
    /\ callArgs \in {[fn |-> "makeCacheKeyFromContext", parts |-> u, url |-> UrlString(u)] :
                        u \in UrlParts}
    /\ callResult = NoCall

CallKey ==
    /\ callArgs.fn = "makeCacheKeyFromContext"
    /\ callResult = NoCall
    /\ callResult' = [fn |-> callArgs.fn, value |-> makeCacheKeyFromContext(callArgs.url)]
    /\ Quiescent

SpecKey == InitKey /\ [][CallKey]_vars

\* ---------------------------------------------------- session fingerprint
\* sha256Hex(ip): the 64 hexadecimal characters of the SHA-256 digest, given
\* by its values on the client addresses "" (neither cf-connecting-ip nor
\* x-forwarded-for is sent), "203.0.113.7" and "198.51.100.23".
sha256Hex(ip) ==
    IF ip = "" THEN
         <<"e", "3", "b", "0", "c", "4", "4", "2", "9", "8", "f", "c", "1", "c",
           "1", "4", "9", "a", "f", "b", "f", "4", "c", "8", "9", "9", "6", "f",
           "b", "9", "2", "4", "2", "7", "a", "e", "4", "1", "e", "4", "6", "4",
           "9", "b", "9", "3", "4", "c", "a", "4", "9", "5", "9", "9", "1", "b",
           "7", "8", "5", "2", "b", "8", "5", "5">>
    ELSE IF ip = "203.0.113.7" THEN
         <<"f", "e", "c", "5", "2", "5", "6", "5", "a", "a", "0", "c", "f", "1",
           "8", "f", "5", "7", "d", "7", "c", "f", "5", "b", "3", "a", "c", "7",
           "2", "8", "5", "0", "3", "b", "8", "9", "9", "2", "d", "2", "d", "6",
           "f", "7", "d", "4", "6", "d", "a", "1", "d", "1", "2", "0", "1", "0",
           "9", "0", "9", "0", "2", "b", "0", "2">>
    ELSE \* "198.51.100.23"
         <<"b", "f", "e", "b", "4", "c", "6", "1", "9", "2", "9", "8", "5", "e",
           "f", "a", "0", "5", "e", "7", "f", "a", "0", "7", "4", "0", "a", "c",
           "4", "5", "7", "0", "8", "a", "5", "1", "5", "e", "5", "6", "9", "e",
           "7", "e", "d", "a", "e", "c", "7", "f", "c", "0", "6", "0", "f", "f",
           "7", "2", "b", "4", "4", "a", "0", "c">>

\* User-agent header values as sequences of characters; <<>> is the missing
\* header.
UserAgentStrings ==
    {<<>>,
     <<"c", "u", "r", "l", "/", "8">>,
     <<"M", "o", "z", "i", "l", "l", "a", "/", "5", ".", "0">>,
     <<"M", "o", "z", "i", "l", "l", "a", "/", "5", ".", "0", " ", "(", "X",
       "1", "1", ")">>}

FingerprintLen == 32

\* `${ipHash}-${userAgent}`.substring(0, 32) with ipHash = sha256Hex(ip)
HandlerSessionId(ip, userAgent) ==
    LET str == sha256Hex(ip) \o <<"-">> \o userAgent
    IN  SubSeq(str, 1, IF Len(str) < FingerprintLen THEN Len(str) ELSE FingerprintLen)

\* Two requests, each with its address and user agent.
InitFingerprint ==
    /\ InitQuiescent
    /\ callArgs \in {[fn |-> "sessionId", first |-> a, second |-> b] :
                        a, b \in [ip : {"", "203.0.113.7", "198.51.100.23"},
                                  userAgent : UserAgentStrings]}
    /\ callResult = NoCall

CallFingerprint ==
    /\ callArgs.fn = "sessionId"
    /\ callResult = NoCall
    /\ callResult' =
          [fn |-> callArgs.fn,
           value |-> <<HandlerSessionId(callArgs.first.ip, callArgs.first.userAgent),
                       HandlerSessionId(callArgs.second.ip, callArgs.second.userAgent)>>]
    /\ Quiescent

SpecFingerprint == InitFingerprint /\ [][CallFingerprint]_vars

\* -------------------------------------------------------- UTM attribution
\* A JavaScript value that is a string, or null / undefined.
Null == [isNull |-> TRUE, text |-> ""]
Str(text) == [isNull |-> FALSE, text |-> text]

\* a || b
OrElse(a, b) == IF ~a.isNull /\ a.text /= "" THEN a ELSE b

\* url.searchParams.get(name) on a query string, and
\* redisValue?.utm_params?.[name] on the stored parameters, each given as a
\* set of <<name, value>> pairs with at most one pair per name.
SearchParamsGet(search, name) ==
    IF \E p \in search : p[1] = name
    THEN Str((CHOOSE p \in search : p[1] = name)[2])
    ELSE Null

\* url.searchParams.get(name) || redisValue?.utm_params?.[name] || null
UtmField(search, utmParams, name) ==
    OrElse(SearchParamsGet(search, name), OrElse(SearchParamsGet(utmParams, name), Null))

\* Two of the five UTM fields, which are derived by the same expression.
UtmNames == {"utm_source", "utm_medium"}

\* Parameter sets with each name left out, empty, or set to one of `values`.
ParamSets(values) ==
    { {<<n, f[n]>> : n \in {m \in UtmNames : f[m] /= "(omitted)"}} :
        f \in [UtmNames -> values \cup {"", "(omitted)"}] }

InitUtm ==
    /\ InitQuiescent
    /\ callArgs \in {[fn |-> "buildAnalyticsInput.utm", search |-> q, utm_params |-> u] :
                        q \in ParamSets({"query"}), u \in ParamSets({"stored"})}
    /\ callResult = NoCall

CallUtm ==
    /\ callArgs.fn = "buildAnalyticsInput.utm"
    /\ callResult = NoCall
    /\ callResult' = [fn |-> callArgs.fn,
                      value |-> [n \in UtmNames |->
                                    UtmField(callArgs.search, callArgs.utm_params, n)]]
    /\ Quiescent

SpecUtm == InitUtm /\ [][CallUtm]_vars

\* ------------------------------------------------------------- request id
\* req.header("cf-ray") ?? req.header("x-request-id") ?? crypto.randomUUID(),
\* where `a ?? b` is b when a is null or undefined and a otherwise.
RequestIdOf(headers, uuid) ==
    IF ~headers.cf_ray.isNull THEN headers.cf_ray
    ELSE IF ~headers.x_request_id.isNull THEN headers.x_request_id
    ELSE Str(uuid)

\* The request id as the handler, buildAnalyticsInput and executeConvexWrites
\* of one request each compute it; uuids[k] is what randomUUID would return
\* at the k-th of these places.
RequestIdsOfRequest(headers, uuids) ==
    LET requestId == RequestIdOf(headers, uuids[2])
    IN  [handler |-> RequestIdOf(headers, uuids[1]),
         event |-> [idempotency_key |-> requestId, request_id |-> requestId],
         mutation |-> RequestIdOf(headers, uuids[3])]

InitRequestId ==
    /\ InitQuiescent
    /\ callArgs \in {[fn |-> "requestId", headers |-> h, uuids |-> u] :
                        h \in [cf_ray : {Null, Str("8f2c-AMS")},
                              x_request_id : {Null, Str(""), Str("req-7")}],
                        u \in [1..3 -> {"uuid-1", "uuid-2", "uuid-3"}]}
    /\ callResult = NoCall

CallRequestId ==
    /\ callArgs.fn = "requestId"
    /\ callResult = NoCall
    /\ callResult' = [fn |-> callArgs.fn,
                      value |-> RequestIdsOfRequest(callArgs.headers, callArgs.uuids)]
    /\ Quiescent

SpecRequestId == InitRequestId /\ [][CallRequestId]_vars

\* ---------------------------------------------------------- bot detection
\* A user agent is a sequence of words, each a maximal run of characters that
\* the alternatives of the bot pattern may match; "" is the empty sequence.
LowerWord(w) ==
    IF w = "Googlebot" THEN "googlebot" ELSE IF w = "cURL" THEN "curl"
    ELSE IF w = "Mozilla" THEN "mozilla" ELSE IF w = "Chrome" THEN "chrome"
    ELSE w

\* The alternatives of botRegex.
BotSignatures ==
    {"bot", "crawler", "spider", "crawling", "curl", "wget", "httpclient",
     "python-requests", "libwww", "bingpreview", "facebookexternalhit", "slurp",
     "mediapartners-google", "phantomjs", "headless", "puppeteer", "lighthouse",
     "semrush", "ahrefs", "yandex", "googlebot", "bingbot", "duckduckbot"}

\* botRegex.test(userAgent.toLowerCase())
BotRegexTest(userAgent) ==
    \E i \in 1..Len(userAgent) : LowerWord(userAgent[i]) \in BotSignatures

\* bm is cf.botManagement: absent (present FALSE), or an object; verifiedBot
\* is TRUE when the field is the boolean true (the only value the code tests
\* for), hasScore tells whether `typeof bm.score === "number"`.
isBot(userAgent, bm) ==
    IF bm.present /\ bm.verifiedBot = TRUE THEN TRUE
    ELSE IF bm.present /\ bm.hasScore /\ bm.score <= 30 THEN TRUE
    ELSE IF userAgent = <<>> THEN FALSE
    ELSE BotRegexTest(userAgent)

\* The calls: user agents with and without a bot signature, and values of
\* cf.botManagement with scores on both sides of the threshold.
InitBot ==
    /\ InitQuiescent
    /\ callArgs \in {[fn |-> "isBot", userAgent |-> ua, bm |-> bm] :
                        ua \in {<<>>, <<"Mozilla", "Chrome">>, <<"Mozilla", "Googlebot">>,
                                <<"cURL">>, <<"curl">>, <<"python-requests">>,
                                <<"Mozilla", "headless", "Chrome">>},
                        bm \in {[present |-> FALSE, verifiedBot |-> FALSE,
                                  hasScore |-> FALSE, score |-> 0]}
                               \cup {[present |-> TRUE, verifiedBot |-> v,
                                      hasScore |-> TRUE, score |-> sc] :
                                        v \in BOOLEAN, sc \in {1, 29, 30, 31, 99}}
                               \cup {[present |-> TRUE, verifiedBot |-> v,
                                      hasScore |-> FALSE, score |-> 0] :
                                        v \in BOOLEAN}}
    /\ callResult = NoCall

CallBot ==
    /\ callArgs.fn = "isBot"
    /\ callResult = NoCall
    /\ callResult' = [fn |-> callArgs.fn, value |-> isBot(callArgs.userAgent, callArgs.bm)]
    /\ Quiescent

SpecBot == InitBot /\ [][CallBot]_vars

TypeOK ==
    /\ pc \in [Reqs -> {"idle", "open", "match", "hitFetch", "await", "done"}]
    /\ slugWarmups \in [Slugs -> 0..NumReq]
    /\ wstate \in [Reqs -> {"none", "fetching", "putting", "resolved", "rejected"}]
    /\ env \in Envs
    /\ tpc \in [Reqs -> {"none", "dispatching", "done"}]
    /\ \A r \in Reqs :
          /\ tasks[r].analytics \in {"none", "pending", "fulfilled", "rejected"}
          /\ tasks[r].ingest \in {"none", "pending", "fulfilled", "rejected"}
          /\ tasks[r].health \in {"none", "probing", "writing", "fulfilled", "rejected"}
          /\ mutationResult[r] \in {"none", "ok", "failed"}
          /\ fpc[r] \in {"none", "setting", "done"}
          /\ firstClickOfSession[r] \in BOOLEAN
    /\ marker \subseteq {SessionKey(ClientSessionId, s) : s \in Slugs}


\* ------------------------------------------------------------------ claims
Pending(l) == wstate[l] \in {"fetching", "putting"}
Settled(l) == wstate[l] \in {"resolved", "rejected"}

\* Backing-store fetches for slug s that are in flight: the hit path's lookups
\* and the leaders' warmup fetches.
HitFetchesInFlight(s) == {r \in Reqs : pc[r] = "hitFetch" /\ slug[r] = s}
WarmupFetchesInFlight(s) == {l \in Reqs : wstate[l] = "fetching" /\ slug[l] = s}

\* C1: requests for one uncached slug that reach the coalescing map while a
\* warmup fetch for the slug is in flight all await that warmup's promise, the
\* store is fetched once for all of them (by the leader, never by a follower),
\* and all requests that awaited one promise observe the same result.
C1_SingleFlight ==
    \A r1 \in Reqs : awaiting[r1] /= 0 =>
        /\ fetches[r1] = IF awaiting[r1] = r1 THEN 1 ELSE 0
        /\ \A r2 \in Reqs :
            /\ (awaiting[r2] = awaiting[r1] /\ pc[r1] = "done" /\ pc[r2] = "done")
                  => observed[r1] = observed[r2]
            /\ (/\ awaiting[r2] /= 0
                /\ slug[r2] = slug[r1]
                /\ wstate[awaiting[r1]] = "fetching"
                /\ Pending(awaiting[r2]))
                  => awaiting[r2] = awaiting[r1]

\* C1 witness: a leader and a follower of the same warmup were both redirected.
C1_Witness ==
    \E r1, r2 \in Reqs :
        /\ r1 /= r2
        /\ awaiting[r1] = r1 /\ awaiting[r2] = r1
        /\ pc[r1] = "done" /\ pc[r2] = "done"
        /\ observed[r2].kind = "found"
        /\ response[r1].status = 302 /\ response[r2].status = 302

\* C2 as stated: at most one backing-store fetch per slug is in flight,
\* counting the hit path's lookups as well as the warmup fetches.
C2_Original ==
    \A s \in Slugs :
        Cardinality(HitFetchesInFlight(s)) + Cardinality(WarmupFetchesInFlight(s)) <= 1

\* C2 amended: at most one coalesced fetch (a warmup fetch issued by a
\* cache-miss leader) per slug is in flight, and it is the one whose promise
\* the coalescing map holds; followers issue none.
C2_OneWarmupFetchPerSlug ==
    \A s \in Slugs :
        /\ Cardinality(WarmupFetchesInFlight(s)) <= 1
        /\ \A l \in WarmupFetchesInFlight(s) : slugWarmups[s] = l

\* C2 witness: a follower awaits a leader's fetch that is still in flight.
C2_Witness ==
    \E l, r \in Reqs : l /= r /\ wstate[l] = "fetching" /\ awaiting[r] = l /\ pc[r] = "await"

\* C3: a request that has observed the result of a warmup promise (leader or
\* follower, whether the promise resolved with a record, with undefined, or
\* rejected) finds that promise no longer in the coalescing map.
C3_DeletedBeforeObserved ==
    \A r \in Reqs :
        (pc[r] = "done" /\ awaiting[r] /= 0) => slugWarmups[slug[r]] /= awaiting[r]

\* C3 witness: a follower has observed the result of a leader's warmup.
C3_Witness ==
    \E r \in Reqs : pc[r] = "done" /\ awaiting[r] /= 0 /\ awaiting[r] /= r

C5_FailureNotRetained ==
    [][ /\ \A l \in Reqs : wstate[l] = "rejected" => slugWarmups[slug[l]] /= l
        /\ \A r \in Reqs :
              (pc[r] = "match" /\ pc'[r] = "await") =>
                  /\ ~Settled(awaiting'[r])
                  /\ (\A l \in Reqs : slug[l] = slug[r] => ~Pending(l)) =>
                        (awaiting'[r] = r /\ fetches'[r] = fetches[r] + 1
                         /\ wstate'[r] = "fetching") ]_vars

\* C5 witness: after a warmup for a slug rejected, a later request for the
\* slug has started a fetch of its own.
C5_Witness ==
    \E l, r \in Reqs :
        /\ l /= r /\ slug[l] = slug[r]
        /\ wstate[l] = "rejected"
        /\ awaiting[r] = r /\ fetches[r] = 1

\* C6 as stated: a request of the miss path whose awaited fetch failed is
\* answered not-found.
C6_Original ==
    \A r \in Reqs :
        (pc[r] = "done" /\ awaiting[r] /= 0 /\ wstate[awaiting[r]] = "rejected")
            => response[r] = NotFound

\* C7 as stated: a request whose cache read failed is answered from the
\* backing store like a cache miss (redirect or not-found).
C7_Original ==
    \A r \in Reqs :
        (pc[r] = "done" /\ cached[r] = CacheReadError) => response[r].status \in {302, 404}

\* C8: when the leader's cache.put rejected, the leader and every follower of
\* that warmup are answered with the redirect computed from the fetched record.
C8_PutFailureHarmless ==
    \A r \in Reqs :
        (pc[r] = "done" /\ awaiting[r] /= 0 /\ putResult[awaiting[r]] = "failed") =>
            /\ observed[r].kind = "found"
            /\ \E draw \in Draws :
                  response[r] = buildClientRedirectResponse(
                                    MissFinalUrl(observed[r].redisValue, sessionId[r], draw))

\* C8 witness: a follower and its leader were redirected although the cache
\* write failed.
C8_Witness ==
    \E l, r \in Reqs :
        /\ l /= r /\ awaiting[r] = l /\ putResult[l] = "failed"
        /\ pc[r] = "done" /\ pc[l] = "done"
        /\ response[r].status = 302 /\ response[l].status = 302

\* C9: only a request that started the warmup calls cache.put, at most once
\* and only for the fetch it issued; a follower never writes the cache.
C9_OnlyLeaderWrites ==
    \A r \in Reqs :
        /\ puts[r] <= fetches[r]
        /\ puts[r] <= 1
        /\ puts[r] = 1 => (startedWarmup[r] /\ awaiting[r] = r)

\* C9 witness: a follower was redirected from a record its leader wrote to
\* the cache; the follower made no cache write.
C9_Witness ==
    \E l, r \in Reqs :
        /\ l /= r /\ awaiting[r] = l /\ pc[r] = "done" /\ response[r].status = 302
        /\ puts[l] = 1 /\ puts[r] = 0 /\ putResult[l] = "stored"

\* C10 as stated: the response does not wait for the cache write, so no
\* request is still unanswered, awaiting the warmup, while the warmup's
\* cache.put is pending.
C10_Original ==
    \A r \in Reqs : pc[r] = "await" => wstate[awaiting[r]] /= "putting"

\* C11 as stated: a cache-hit request is answered without waiting for any
\* backing-store call, so whenever its store lookup has been issued the
\* response has been returned already.
C11_Original ==
    \A r \in Reqs : (cached[r].has /\ fetches[r] > 0) => response[r] /= NoResponse

\* An experiment that resolveABTest resolves: present, enabled, with variants.
ActiveExperiment(redisValue) ==
    /\ redisValue.present
    /\ redisValue.ab_test.present /\ redisValue.ab_test.enabled
    /\ Len(redisValue.ab_test.variants) > 0

\* C12 as stated: a cache-hit request whose record has an enabled experiment
\* with a non-empty variant list gets the variant of the deterministic
\* strategy, whatever the record's distribution mode.
C12_Original ==
    \A r \in Reqs :
        (pc[r] = "done" /\ cached[r].has /\ observed[r].kind = "found"
            /\ ActiveExperiment(observed[r].redisValue)) =>
            LET redisValue == observed[r].redisValue
                variant == selectDeterministicVariant(redisValue.ab_test.variants,
                                                      sessionId[r])
            IN  /\ variantId[r] = variant.id
                /\ response[r] = buildClientRedirectResponse(
                                    WithUtm(variant.url, redisValue.utm_params))

\* C13: two requests with the same session fingerprint that resolved the
\* same record with an active deterministic experiment got the same variant
\* id and the same final URL, whichever path (cache hit, coalescing leader
\* or follower) served each of them.
C13_SameVariantOnEveryPath ==
    \A r1, r2 \in Reqs :
        (/\ pc[r1] = "done" /\ pc[r2] = "done"
         /\ response[r1].status = 302 /\ response[r2].status = 302
         /\ observed[r1].kind = "found" /\ observed[r2] = observed[r1]
         /\ ActiveExperiment(observed[r1].redisValue)
         /\ observed[r1].redisValue.ab_test.distribution = "deterministic"
         /\ sessionId[r1] = sessionId[r2]) =>
            /\ variantId[r1] /= "null"
            /\ variantId[r1] = variantId[r2]
            /\ response[r1].location = response[r2].location

\* C13 witness: a request served on the cache-hit path and a request served
\* on the miss path, same fingerprint and same deterministic experiment, were
\* redirected to the same variant.
C13_Witness ==
    \E r1, r2 \in Reqs :
        /\ cached[r1].has /\ awaiting[r2] /= 0
        /\ pc[r1] = "done" /\ pc[r2] = "done"
        /\ observed[r1].kind = "found" /\ observed[r2] = observed[r1]
        /\ ActiveExperiment(observed[r1].redisValue)
        /\ observed[r1].redisValue.ab_test.distribution = "deterministic"
        /\ sessionId[r1] = sessionId[r2]
        /\ variantId[r1] /= "null" /\ variantId[r1] = variantId[r2]
        /\ response[r1] = response[r2] /\ response[r1].status = 302

\* C14 as stated: every request answered with a redirect, on the hit path,
\* as leader or as follower, has handed the creation and dispatch of its
\* analytics event to waitUntil.
C14_Original ==
    \A r \in Reqs :
        (pc[r] = "done" /\ response[r].status = 302) => deferred[r] = "telemetry"

\* C15 as stated: the redirect_status of a request's analytics event is the
\* status code of the response the request's client received.
C15_Original ==
    \A r \in Reqs : event[r].built => event[r].redirect_status = response[r].status

\* C16 as stated: no step of the deferred work changes the response the
\* client was given, and every failure in it (building the event, a metrics
\* dispatch, the health probe, the remote mutation) has a warn/error log entry.
C16_Original ==
    [][ \A r \in Reqs :
          /\ response[r] /= NoResponse => response'[r] = response[r]
          /\ (tpc'[r] = "done" /\ ~event'[r].built) =>
                "Failed to send analytics" \in tlog'[r]
          /\ (tasks'[r].analytics = "rejected" \/ tasks'[r].ingest = "rejected") =>
                "Failed to send analytics" \in tlog'[r]
          /\ (probe'[r].kind = "error" /\ tasks'[r].health = "fulfilled") =>
                "Health check failed" \in tlog'[r]
          /\ mutationResult'[r] = "failed" => "Convex write failed" \in tlog'[r] ]_vars

\* C17: the function handed to waitUntil stays pending until every task has
\* settled, so the host keeps every task running; the step in which one task
\* rejects leaves its siblings as they were, and each sibling whose binding
\* is configured (or whose gate is open) had been started by then.
C17_SiblingsUnaffected ==
    [][ \A r \in Reqs :
          /\ tpc'[r] = "done" =>
                \A n \in TaskNames : tasks'[r][n] \in {"none", "fulfilled", "rejected"}
          /\ \A n \in TaskNames :
                (tasks[r][n] /= "rejected" /\ tasks'[r][n] = "rejected") =>
                    /\ \A m \in TaskNames \ {n} : tasks'[r][m] = tasks[r][m]
                    /\ (env.ANALYTICS_ENDPOINT /\ env.ANALYTICS_TOKEN) =>
                            tasks[r].analytics /= "none"
                    /\ env.API_SECRET => tasks[r].ingest /= "none"
                    /\ (HeldRecord(r).present /\ HeldRecord(r).is_active
                        /\ HeldRecord(r).link_id /= "" /\ HeldRecord(r).user_id /= ""
                        /\ ~event[r].is_bot) => tasks[r].health /= "none" ]_vars

\* C17 witness: one dispatch rejected, the other dispatch and the health
\* check ran to completion.
C17_Witness ==
    \E r \in Reqs :
        /\ tpc[r] = "done"
        /\ tasks[r].analytics = "rejected"
        /\ tasks[r].ingest = "fulfilled"
        /\ tasks[r].health = "fulfilled" /\ Len(mutations[r]) = 1

\* C18: once the event of a request is built, the health check is among the
\* request's tasks exactly when the record the request holds is active, has a
\* link id and a user id, and the event is not flagged as a bot; no health
\* check runs without an event.
C18_ProbeGate ==
    \A r \in Reqs :
        /\ event[r].built =>
              (tasks[r].health /= "none" <=>
                  (/\ observed[r].kind = "found"
                   /\ observed[r].redisValue.is_active
                   /\ observed[r].redisValue.link_id /= ""
                   /\ observed[r].redisValue.user_id /= ""
                   /\ ~event[r].is_bot))
        /\ ~event[r].built => tasks[r].health = "none"

\* C18 witness: a cache-hit request for an active record with both ids, not
\* a bot, has its health probe in flight.
C18_Witness ==
    \E r \in Reqs :
        /\ cached[r].has /\ event[r].built /\ ~event[r].is_bot
        /\ observed[r].kind = "found" /\ observed[r].redisValue.is_active
        /\ tasks[r].health = "probing"

\* C19: a health-check cycle has made no mutation call before the probe
\* settles and exactly one from then on, whatever the probe outcome; a failed
\* mutation call is logged, the cycle ends, and no second call is made.
C19_OneMutationPerCycle ==
    \A r \in Reqs :
        /\ tasks[r].health \in {"none", "probing"} => Len(mutations[r]) = 0
        /\ tasks[r].health \in {"writing", "fulfilled", "rejected"} =>
              Len(mutations[r]) = 1
        /\ mutationResult[r] = "failed" =>
              /\ "Convex write failed" \in tlog[r]
              /\ tasks[r].health = "fulfilled"

\* C19 witness: the probe received a response, the one mutation call failed
\* and the cycle ended.
C19_Witness ==
    \E r \in Reqs :
        /\ probe[r].kind = "response"
        /\ mutationResult[r] = "failed"
        /\ tasks[r].health = "fulfilled"
        /\ Len(mutations[r]) = 1

\* C20 as stated: every mutation call of a health-check cycle carries the
\* click-event summary and the probe outcome, whether the probe received a
\* response or failed.
C20_Original ==
    \A r \in Reqs :
        \A i \in 1..Len(mutations[r]) :
            /\ mutations[r][i].clickEvent = ClickEvent(slug[r])
            /\ mutations[r][i].urlStatusCode =
                  (IF probe[r].kind = "response" THEN probe[r].response.status ELSE 0)
            /\ mutations[r][i].urlStatusMessage =
                  determineHealthStatus(probe[r].response, probe[r].responseTime,
                                        probe[r].error).status

\* The Redis calls of request r's first-click block were all answered.
FlagEvaluated(r) == "Failed to evaluate first-click flag" \notin tlog[r]

\* C21 (as stated): for one session id and one slug, of the analytics events
\* built while the session marker lives at most one is reported as the first
\* click of the session, also when the exists-checks and the sets of the
\* requests interleave.  (Requests whose Redis calls failed are left aside:
\* they default to first-click.)
C21_Original ==
    \A r1 \in Reqs, r2 \in Reqs :
        (r1 /= r2 /\ slug[r1] = slug[r2] /\ event[r1].built /\ event[r2].built
            /\ FlagEvaluated(r1) /\ FlagEvaluated(r2))
            => ~(event[r1].first_click_of_session /\ event[r2].first_click_of_session)

VariantUrls(s) ==
    UNION { {StoreHistory(s)[i].ab_test.variants[k].url :
                k \in 1..Len(StoreHistory(s)[i].ab_test.variants)} :
            i \in 1..Len(StoreHistory(s)) }

\* C23: every entry of the edge cache holds the canonical destination of a
\* record that was fetched for the slug, with that record's UTM parameters
\* merged in; no entry holds a variant URL.
C23_CachedIsCanonical ==
    \A s \in Slugs :
        cache[s].has =>
            /\ \E i \in 1..Len(StoreHistory(s)) :
                  LET rec == StoreHistory(s)[i]
                  IN  /\ rec.present /\ rec.destination.valid
                      /\ cache[s].location = WithUtm(rec.destination, rec.utm_params)
            /\ \A v \in VariantUrls(s) : cache[s].location.host /= v.host

C23_Witness ==
    \E l \in Reqs :
        /\ putResult[l] = "stored"
        /\ wresult[l].redisValue.utm_params /= {}
        /\ response[l].status = 302
        /\ response[l].location.host \in {v.host : v \in VariantUrls(slug[l])}
        /\ cache[CacheKey(l)].has
        /\ cache[CacheKey(l)].location =
              WithUtm(wresult[l].redisValue.destination, wresult[l].redisValue.utm_params)

\* The store has no record, or one whose destination is no absolute URL.
NoUsableRecord(value) == ~value.present \/ ~value.destination.valid

\* C25: when the lookup of a request that found no cache entry is answered
\* from a store that has no record for the slug, or a record whose
\* destination does not parse, the warmup yields nothing and writes no cache
\* entry, and every request that awaited it is answered not-found without a
\* cache write.  (A lookup that fails with an error is the case of C6.)
C25_NotFoundNoWrite ==
    [][\A r \in Reqs :
        /\ (wstate[r] = "fetching" /\ wstate'[r] \in {"putting", "resolved"}
                /\ NoUsableRecord(store[slug[r]]))
              => /\ wstate'[r] = "resolved" /\ wresult'[r].kind = "undefined"
                 /\ puts' = puts /\ cache' = cache
        /\ (pc[r] = "await" /\ pc'[r] = "done" /\ wstate[awaiting[r]] = "resolved"
                /\ wresult[awaiting[r]].kind = "undefined")
              => /\ response'[r] = NotFound
                 /\ puts' = puts /\ cache' = cache /\ putResult[awaiting[r]] = "none"
    ]_vars

C25_Witness ==
    \E l \in Reqs, r \in Reqs :
        /\ l /= r /\ awaiting[l] = l /\ awaiting[r] = l
        /\ pc[l] = "done" /\ pc[r] = "done"
        /\ store[slug[l]] = RecBad /\ storeWrites[slug[l]] = 0
        /\ response[l] = NotFound /\ response[r] = NotFound
        /\ ~cache[CacheKey(l)].has /\ puts[l] = 0 /\ puts[r] = 0

\* C26: for a non-empty variant list whose weights sum to a value <= 0, the
\* weighted and the deterministic selection both return the first variant,
\* whatever the session id or the random draw.
C26_FirstVariantWhenNoWeight ==
    (callResult /= NoCall /\ Len(callArgs.variants) > 0
        /\ TotalWeight(callArgs.variants) <= 0)
        => callResult.value = callArgs.variants[1]

C26_Witness ==
    /\ callResult /= NoCall
    /\ callResult.fn = "selectDeterministicVariant"
    /\ Len(callArgs.variants) = 3
    /\ TotalWeight(callArgs.variants) < 0
    /\ callArgs.variants[1].weight < 0 /\ callArgs.variants[3].weight > 0
    /\ callResult.value = callArgs.variants[1]

\* C29: with an error present the classifier answers by the first keyword
\* group the message matches, in the order timeout/aborted (timeout),
\* ssl/certificate (ssl_error), dns/name resolution (dns_error),
\* network/connection (down), and error when none matches, whatever response
\* is passed as well; every such answer is unhealthy.
C29_ErrorBranchOrder ==
    (callResult /= NoCall /\ callArgs.fn = "determineHealthStatus" /\ callArgs.error.present)
    => LET w == callArgs.error.words
           g1 == w \cap {"timeout", "aborted"} /= {}
           g2 == w \cap {"ssl", "certificate"} /= {}
           g3 == w \cap {"dns", "name resolution"} /= {}
           g4 == w \cap {"network", "connection"} /= {}
           st == callResult.value.status
       IN  /\ ~callResult.value.isHealthy
           /\ g1 => st = "timeout"
           /\ (~g1 /\ g2) => st = "ssl_error"
           /\ (~g1 /\ ~g2 /\ g3) => st = "dns_error"
           /\ (~g1 /\ ~g2 /\ ~g3 /\ g4) => st = "down"
           /\ (~g1 /\ ~g2 /\ ~g3 /\ ~g4) => st = "error"

C29_Witness ==
    /\ callResult /= NoCall /\ callArgs.fn = "determineHealthStatus"
    /\ callArgs.error.present
    /\ callArgs.error.words = {"aborted", "certificate", "connection"}
    /\ callArgs.response.present /\ callArgs.response.status = 200
    /\ callResult.value = HealthResult("timeout", FALSE)

\* C30: with no error and a response present the classifier answers, in this
\* order, redirect_loop for a 3xx whose Location contains the redirect marker,
\* down for a status >= 500, unstable for a status in [400,500), and for a
\* status in [200,400) slow and unhealthy above 5000 ms, slow and healthy
\* above 3000 ms, healthy otherwise; with no response or a status below 200 it
\* answers error, unhealthy.
C30_ResponseBranch ==
    (callResult /= NoCall /\ callArgs.fn = "determineHealthStatus" /\ ~callArgs.error.present)
    => LET resp == callArgs.response
           code == resp.status
           t == callArgs.responseTime
           loop == resp.present /\ code \in 300..399 /\ resp.locationHasRedirect
           res == callResult.value
       IN  /\ loop => res = HealthResult("redirect_loop", FALSE)
           /\ (resp.present /\ code >= 500) => res = HealthResult("down", FALSE)
           /\ (resp.present /\ code \in 400..499) => res = HealthResult("unstable", FALSE)
           /\ (resp.present /\ ~loop /\ code \in 200..399 /\ t > 5000)
                 => res = HealthResult("slow", FALSE)
           /\ (resp.present /\ ~loop /\ code \in 200..399 /\ t > 3000 /\ t <= 5000)
                 => res = HealthResult("slow", TRUE)
           /\ (resp.present /\ ~loop /\ code \in 200..399 /\ t <= 3000)
                 => res = HealthResult("healthy", TRUE)
           /\ (~resp.present \/ code < 200) => res = HealthResult("error", FALSE)

C30_Witness ==
    /\ callResult /= NoCall /\ callArgs.fn = "determineHealthStatus"
    /\ ~callArgs.error.present
    /\ callArgs.response.present /\ callArgs.response.status = 302
    /\ ~callArgs.response.locationHasRedirect
    /\ callArgs.responseTime = 5000
    /\ callResult.value = HealthResult("slow", TRUE)

\* q is path without its trailing slashes, "/" when nothing is left.
IsStrippedPath(q, path) ==
    \E k \in 0..Len(path) :
        /\ k > 0 => path[k] /= "/"
        /\ \A i \in (k + 1)..Len(path) : path[i] = "/"
        /\ q = IF k = 0 THEN <<"/">> ELSE SubSeq(path, 1, k)

\* Two request URLs that differ in the letter case of the origin, in trailing
\* slashes or in the query string only.
SameResource(u1, u2) ==
    /\ LowerAll(u1.scheme \o u1.host) = LowerAll(u2.scheme \o u2.host)
    /\ \E q \in Paths \cup {<<"/">>} : IsStrippedPath(q, u1.path) /\ IsStrippedPath(q, u2.path)

\* C28: the cache key of a request URL is its lower-cased origin followed by
\* its path without trailing slashes ("/" when nothing is left), whatever the
\* query string; request URLs that differ only in the letter case of the
\* origin, in trailing slashes or in the query string have the same key; and
\* the key of a key is that key.
C28_CacheKeyNormalised ==
    (callResult /= NoCall /\ callArgs.fn = "makeCacheKeyFromContext")
    => LET u == callArgs.parts
           key == callResult.value
           n == Len(u.scheme) + Len(u.host)
       IN  /\ SubSeq(key, 1, n) = LowerAll(u.scheme \o u.host)
           /\ IsStrippedPath(SubSeq(key, n + 1, Len(key)), u.path)
           /\ \A other \in UrlParts :
                 SameResource(u, other) => makeCacheKeyFromContext(UrlString(other)) = key
           /\ makeCacheKeyFromContext(key) = key

C28_Witness ==
    /\ callResult /= NoCall /\ callArgs.fn = "makeCacheKeyFromContext"
    /\ callArgs.url = <<"HTTPS://", "X", "x", "/", "A", "/", "/", "?", "/">>
    /\ callResult.value = <<"https://", "x", "x", "/", "A">>

\* What a request is answered from record value: the redirect to its
\* destination (or a variant of it) with its UTM parameters, not-found when
\* there is no record or its destination does not parse.
AnswerFrom(value, sid, draw) ==
    IF getUrlFromRedis(value).kind = "found"
    THEN buildClientRedirectResponse(MissFinalUrl(value, sid, draw))
    ELSE NotFound

\* C24 (as stated): a request handled after the record of its slug was
\* changed or removed is answered according to the record the store holds
\* now.  (Requests whose lookup fails are left aside.)
C24_Original ==
    [][\A r \in Reqs, sid \in SessionIds, draw \in Draws :
        (/\ storeWrites[slug[r]] > 0
         /\ HitAnswer(r, TRUE, sid, draw) \/ Resume(r, sid, draw)
         /\ response'[r] /= InternalError)
            => response'[r] = AnswerFrom(store[slug[r]], sid, draw)
    ]_vars

\* C27: a request whose record has no experiment config, a disabled one or
\* one with an empty variant list gets no variant: on the miss path it is
\* redirected to the record's destination with the record's UTM parameters,
\* on the hit path to the canonical destination (with UTM parameters) that
\* the cache holds.
C27_NoExperimentNoVariant ==
    [][\A r \in Reqs, sid \in SessionIds, draw \in Draws :
        /\ (HitAnswer(r, TRUE, sid, draw) /\ ~ActiveExperiment(store[slug[r]]))
              => /\ variantId'[r] = "null"
                 /\ response'[r] = buildClientRedirectResponse(cached[r].location)
                 /\ cached[r].location =
                        WithUtm(store[slug[r]].destination, store[slug[r]].utm_params)
        /\ (Resume(r, sid, draw) /\ wstate[awaiting[r]] = "resolved"
                /\ wresult[awaiting[r]].kind = "found"
                /\ ~ActiveExperiment(wresult[awaiting[r]].redisValue))
              => /\ variantId'[r] = "null"
                 /\ response'[r] = buildClientRedirectResponse(
                        WithUtm(wresult[awaiting[r]].redisValue.destination,
                                wresult[awaiting[r]].redisValue.utm_params))
    ]_vars

C27_Witness ==
    \E l \in Reqs, r \in Reqs :
        /\ l /= r /\ slug[l] = slug[r] /\ pc[l] = "done" /\ pc[r] = "done"
        /\ startedWarmup[l] /\ cached[r].has
        /\ observed[l].kind = "found" /\ observed[r] = observed[l]
        /\ observed[l].redisValue.ab_test.present
        /\ ~observed[l].redisValue.ab_test.enabled
        /\ Len(observed[l].redisValue.ab_test.variants) > 0
        /\ observed[l].redisValue.utm_params /= {}
        /\ variantId[l] = "null" /\ variantId[r] = "null"
        /\ response[l] = buildClientRedirectResponse(
                WithUtm(observed[l].redisValue.destination, observed[l].redisValue.utm_params))
        /\ response[r] = response[l]

\* Sum of the weights of the first i variants.
PrefixWeight(variants, i) == TotalWeight(SubSeq(variants, 1, i))

NonNegativeWeights(variants) == \A i \in 1..Len(variants) : variants[i].weight >= 0

\* The buckets the loop of the deterministic selection maps to variant i.
BucketsOf(variants, i) ==
    {b \in 0..(TotalWeight(variants) - 1) :
        DeterministicLoop(variants, b, 0, 1) = variants[i]}

\* C38: in the deterministic selection over non-negative integer weights of
\* positive sum, the bucket |h| mod totalWeight lies in 0..totalWeight-1 for
\* every 32-bit hash (h = -2^31 included), the chosen variant is the first
\* in declared order whose cumulative weight exceeds the bucket, exactly
\* weight_i buckets map to variant i, and no variant of weight 0 is chosen.
C38_DeterministicBuckets ==
    (callResult /= NoCall /\ callResult.fn = "selectDeterministicVariant"
        /\ NonNegativeWeights(callArgs.variants)
        /\ TotalWeight(callArgs.variants) > 0)
        => LET v == callArgs.variants
               total == TotalWeight(v)
               b == Bucket(SessionHash(callArgs.sessionId), total)
           IN  /\ b \in 0..(total - 1)
               /\ \E i \in 1..Len(v) :
                      /\ PrefixWeight(v, i) > b
                      /\ \A j \in 1..(i - 1) : PrefixWeight(v, j) <= b
                      /\ callResult.value = v[i]
               /\ \A i \in 1..Len(v) : Cardinality(BucketsOf(v, i)) = v[i].weight
               /\ callResult.value.weight /= 0

C38_Witness ==
    /\ callResult /= NoCall
    /\ callResult.fn = "selectDeterministicVariant"
    /\ SessionHash(callArgs.sessionId) = MinInt32
    /\ Len(callArgs.variants) = 3
    /\ callArgs.variants[1].weight = 0
    /\ TotalWeight(callArgs.variants) = 3
    /\ callResult.value = callArgs.variants[3]

\* C39 (as stated): in the weighted selection over weights of positive sum
\* the result is the first variant in declared order at which the running
\* threshold has dropped to <= 0, the last one if none, and a variant of
\* weight 0 is never returned.  Stated here for non-negative weights, where
\* the running threshold after i variants is draw/DrawDen * totalWeight
\* minus the sum of the first i weights.
C39_Original ==
    (callResult /= NoCall /\ callResult.fn = "selectWeightedVariant"
        /\ NonNegativeWeights(callArgs.variants)
        /\ TotalWeight(callArgs.variants) > 0)
        => LET v == callArgs.variants
               t == callArgs.draw * TotalWeight(v)
               Tripped(k) == t - DrawDen * PrefixWeight(v, k) <= 0
               First(i) == Tripped(i) /\ \A j \in 1..(i - 1) : ~Tripped(j)
           IN  /\ \A i \in 1..Len(v) : First(i) => callResult.value = v[i]
               /\ (\A i \in 1..Len(v) : ~Tripped(i)) => callResult.value = v[Len(v)]
               /\ callResult.value.weight /= 0

\* C31 (as stated): when the edge supplies a bot-management score, the bot
\* flag is TRUE exactly when the score is <= 30 or the verified-bot flag is
\* set; the user-agent pattern plays no part.
C31_Original ==
    (callResult /= NoCall /\ callResult.fn = "isBot"
        /\ callArgs.bm.present /\ callArgs.bm.hasScore)
        => (callResult.value
               <=> (callArgs.bm.score <= 30 \/ callArgs.bm.verifiedBot = TRUE))

\* C32 (as stated): each UTM field of the event carries the value of the
\* request's query string whenever the query string has that parameter, an
\* empty value included, and the record's stored value only when the query
\* string omits the parameter.
C32_Original ==
    (callResult /= NoCall /\ callResult.fn = "buildAnalyticsInput.utm")
        => \A n \in UtmNames :
              IF \E p \in callArgs.search : p[1] = n
              THEN callResult.value[n] = SearchParamsGet(callArgs.search, n)
              ELSE callResult.value[n] \in {SearchParamsGet(callArgs.utm_params, n), Null}

\* C33 (as stated): the session fingerprint used for variant selection is at
\* most 32 characters long, is the same for two requests with the same
\* address and user agent, and depends on the user agent as well as on the
\* address: for two requests from one address with different user agents
\* there is a user agent with which that address gets another fingerprint.
C33_Original ==
    (callResult /= NoCall /\ callResult.fn = "sessionId")
        => /\ Len(callResult.value[1]) <= 32 /\ Len(callResult.value[2]) <= 32
           /\ callArgs.first = callArgs.second
                 => callResult.value[1] = callResult.value[2]
           /\ (callArgs.first.ip = callArgs.second.ip
                 /\ callArgs.first.userAgent /= callArgs.second.userAgent)
                 => \E ua \in UserAgentStrings :
                       HandlerSessionId(callArgs.first.ip, ua) /= callResult.value[1]

\* The variant URLs of the record's enabled experiment all fail to parse.
VariantUrlsUnparsable(redisValue) ==
    /\ redisValue.ab_test.present /\ redisValue.ab_test.enabled
    /\ Len(redisValue.ab_test.variants) > 0
    /\ \A k \in 1..Len(redisValue.ab_test.variants) :
          ~redisValue.ab_test.variants[k].url.valid

\* C34: a request answered on the cache-hit path whose store lookup failed
\* or found no record, or whose selected variant URL does not parse, is
\* redirected to the cached canonical destination.
C34_HitFallsBackToCached ==
    \A r \in Reqs :
        (pc[r] = "done" /\ cached[r].has
            /\ (observed[r].kind /= "found"
                    \/ VariantUrlsUnparsable(observed[r].redisValue)))
            => /\ response[r] = buildClientRedirectResponse(cached[r].location)
               /\ response[r] \notin {NotFound, InternalError}
               /\ variantId[r] = "null"

C34_Witness ==
    \E r \in Reqs, l \in Reqs :
        /\ r /= l
        /\ pc[r] = "done" /\ cached[r].has
        /\ observed[r].kind = "found" /\ VariantUrlsUnparsable(observed[r].redisValue)
        /\ response[r] = buildClientRedirectResponse(cached[r].location)
        /\ pc[l] = "done" /\ cached[l].has /\ observed[l].kind /= "found"
        /\ response[l] = buildClientRedirectResponse(cached[l].location)

\* C36 (as stated): the idempotency_key and the request_id of a request's
\* analytics event are equal, and they are the request id sent in the remote
\* mutation of the same request, with or without a cf-ray or x-request-id
\* header.
C36_Original ==
    (callResult /= NoCall /\ callResult.fn = "requestId")
        => /\ callResult.value.event.idempotency_key = callResult.value.event.request_id
           /\ callResult.value.event.request_id = callResult.value.mutation

\* The record with its is_active flag set.
Activated(value) == [value EXCEPT !.is_active = TRUE]

\* C37: a request for a slug whose record is inactive gets the redirect it
\* would get were the record active: the answer computed from the activated
\* record or, on the hit path, the redirect to the cached destination.
C37_InactiveSameRedirect ==
    \A r \in Reqs :
        (pc[r] = "done" /\ response[r] /= InternalError
            /\ store[slug[r]].present /\ ~store[slug[r]].is_active)
            => \/ \E draw \in Draws :
                     response[r] = AnswerFrom(Activated(store[slug[r]]), sessionId[r], draw)
               \/ /\ cached[r].has
                  /\ response[r] = buildClientRedirectResponse(cached[r].location)

C37_Witness ==
    \E r \in Reqs :
        /\ pc[r] = "done" /\ ~cached[r].has /\ startedWarmup[r]
        /\ store[slug[r]].present /\ ~store[slug[r]].is_active
        /\ observed[r].kind = "found" /\ ~observed[r].redisValue.is_active
        /\ response[r].status = 302 /\ response[r].location.valid
        /\ deferred[r] = "telemetry"

\* Every request that has arrived for slug s has been answered.
AllAnswered(s) == \A r \in Reqs : (pc[r] /= "idle" /\ slug[r] = s) => pc[r] = "done"

\* C35: when every I/O call a request waits on settles, every request is
\* eventually answered; a request that awaited a warmup is answered only
\* after that warmup has settled; and once all requests for a slug have been
\* answered the coalescing map has no entry for the slug.
C35_EveryRequestAnswered ==
    /\ <>(\A r \in Reqs : pc[r] = "done" /\ response[r] /= NoResponse)
    /\ [](\A r \in Reqs :
            (pc[r] = "done" /\ awaiting[r] /= 0)
                => wstate[awaiting[r]] \in {"resolved", "rejected"})
    /\ [](\A s \in Slugs : AllAnswered(s) => slugWarmups[s] = 0)

C35_Witness ==
    \E r \in Reqs, l \in Reqs :
        /\ r /= l /\ slug[r] = slug[l]
        /\ startedWarmup[l] /\ ~startedWarmup[r] /\ awaiting[r] = l
        /\ pc[l] = "done" /\ pc[r] = "done"
        /\ response[r].status = 302 /\ response[l].status = 302
        /\ AllAnswered(slug[r]) /\ slugWarmups[slug[r]] = 0

====
